---- MODULE Spec2Model ----
(***************************************************************************)
(* MamaMind: the WhatsApp conversation state machine (chatbot/bot_logic.py *)
(* and chatbot/views.py), the user and meal-plan records                   *)
(* (chatbot/models.py) and meal-plan generation with its retry loop.       *)
(*                                                                         *)
(* Texts are sequences of one-character strings, so that lower(), strip(), *)
(* split(',') and int() are computed as Python computes them.              *)
(***************************************************************************)
EXTENDS Integers, Sequences, FiniteSets, TLC

VARIABLES
    users,      \* User table: phone_number -> row (chatbot/models.py User)
    mealPlans,  \* MealPlan table: sequence of rows in creation order
    convLog,    \* Conversation table: sequence of rows (append-only)
    last,       \* the last request: its input, the handler that ran, the HTTP answer
    sent,       \* messages pushed through WhatsAppHandler.send_message by the last operation
    gen         \* in-flight executions of BotLogic._generate_meal_plan, one per thread

vars == <<users, mealPlans, convLog, last, sent, gen>>

----------------------------------------------------------------------------
(* Python string primitives on sequences of characters *)

UpperLetters == <<"A","B","C","D","E","F","G","H","I","J","K","L","M",
                  "N","O","P","Q","R","S","T","U","V","W","X","Y","Z">>
LowerLetters == <<"a","b","c","d","e","f","g","h","i","j","k","l","m",
                  "n","o","p","q","r","s","t","u","v","w","x","y","z">>
Digits == <<"0","1","2","3","4","5","6","7","8","9">>

LowerChar(c) ==
    IF \E i \in 1..26 : UpperLetters[i] = c
    THEN LowerLetters[CHOOSE i \in 1..26 : UpperLetters[i] = c]
    ELSE c

\* a lower() that leaves the text as typed: the command checks become case-sensitive
LowerAsTyped(s) == s

\* str.lower()
Lower(s) == [i \in 1..Len(s) |-> LowerChar(s[i])]

IsSpace(c) == c \in {" ", "\t", "\n"}

RECURSIVE LStrip(_)
LStrip(s) == IF s # <<>> /\ IsSpace(Head(s)) THEN LStrip(Tail(s)) ELSE s

RECURSIVE RStrip(_)
RStrip(s) ==
    IF s # <<>> /\ IsSpace(s[Len(s)]) THEN RStrip(SubSeq(s, 1, Len(s) - 1)) ELSE s

\* str.strip()
Strip(s) == RStrip(LStrip(s))

\* str.split(','): always at least one piece, empty pieces are kept
RECURSIVE SplitComma(_)
SplitComma(s) ==
    IF \E i \in 1..Len(s) : s[i] = ","
    THEN LET k == CHOOSE i \in 1..Len(s) :
                     s[i] = "," /\ \A j \in 1..(i - 1) : s[j] # ","
         IN  <<SubSeq(s, 1, k - 1)>> \o SplitComma(SubSeq(s, k + 1, Len(s)))
    ELSE <<s>>

\* needle in haystack (substring test)
Contains(hay, needle) ==
    \E i \in 1..(Len(hay) - Len(needle) + 1) :
        SubSeq(hay, i, i + Len(needle) - 1) = needle

IsDigit(c) == \E i \in 1..10 : Digits[i] = c
DigitVal(c) == (CHOOSE i \in 1..10 : Digits[i] = c) - 1

\* int(x) raises ValueError unless x, once stripped, is a non-empty run of digits
IsIntText(s) ==
    LET t == Strip(s) IN t # <<>> /\ \A i \in 1..Len(t) : IsDigit(t[i])

RECURSIVE DigitsToInt(_)
DigitsToInt(t) ==
    IF t = <<>> THEN 0
    ELSE 10 * DigitsToInt(SubSeq(t, 1, Len(t) - 1)) + DigitVal(t[Len(t)])

\* int(x) for a text that IsIntText accepts
ToInt(s) == DigitsToInt(Strip(s))

SeqToSet(s) == {s[i] : i \in 1..Len(s)}

----------------------------------------------------------------------------
(* Tables of BotLogic.__init__ and the conversation states *)

TRIMESTERS == <<1, 2, 3>>
DIETARY_PREFERENCES ==
    <<"Vegetarian", "Vegan", "Gluten-free", "Dairy-free", "No restrictions", "Other">>
PREGNANCY_CONDITIONS ==
    <<"Anemia or low iron", "Gestational diabetes", "Hypertension",
      "Morning sickness", "None", "Other">>
USAGE_PREFERENCES ==
    <<"Weekly meal plans", "Daily nutrition tips", "Recipe suggestions",
      "Nutrition Q&A", "All of the above">>

\* the thirteen states named by process_message and the handlers
ConversationStates ==
    {"ONBOARDING_START", "AWAITING_TRIMESTER", "AWAITING_DIETARY_PREFERENCES",
     "AWAITING_OTHER_DIETARY", "AWAITING_ALLERGIES", "AWAITING_CULTURAL_PREFERENCES",
     "AWAITING_PREGNANCY_CONDITIONS", "AWAITING_OTHER_CONDITIONS",
     "AWAITING_USAGE_PREFERENCES", "COMPLETED_ONBOARDING", "AWAITING_MEAL_PLAN_DAY",
     "AWAITING_SHARE_CONFIRMATION", "CONFIRM_RESET"}

\* User.conversation_state = CharField(default='START')
DefaultState == "START"

\* User.trimester = IntegerField(null=True): 0 stands for None
NoTrimester == 0

\* The row get_or_create makes for an unseen phone number (field defaults of User).
\* The User model has no other_dietary_preferences and no other_conditions field.
NewUser ==
    [conversation_state       |-> DefaultState,
     trimester                |-> NoTrimester,
     dietary_preferences      |-> {},
     allergies                |-> <<>>,
     cultural_preferences     |-> <<>>,
     pregnancy_conditions     |-> {},
     wants_meal_plans         |-> FALSE,
     wants_nutrition_tips     |-> FALSE,
     wants_recipe_suggestions |-> FALSE,
     wants_nutrition_qa       |-> FALSE]

\* User.reset_preferences: every field it assigns, then save()
reset_preferences(user) ==
    [user EXCEPT !.trimester = NoTrimester,
                 !.dietary_preferences = {},
                 !.allergies = <<>>,
                 !.cultural_preferences = <<>>,
                 !.pregnancy_conditions = {},
                 !.wants_meal_plans = FALSE,
                 !.wants_nutrition_tips = FALSE,
                 !.wants_recipe_suggestions = FALSE,
                 !.wants_nutrition_qa = FALSE,
                 !.conversation_state = "START"]

\* Python attribute lookup on a model instance: an attribute that is neither a
\* field of the model nor set on the instance raises AttributeError
HasAttr(user, name) == name \in DOMAIN user

\* the user_profile dict built at the top of _generate_meal_plan,
\* _handle_nutrition_question, the day renderer, send_daily_tip and send_nudge:
\* it reads user.other_dietary_preferences and user.other_conditions
ProfileReadable(user) ==
    HasAttr(user, "other_dietary_preferences") /\ HasAttr(user, "other_conditions")

----------------------------------------------------------------------------
(* Reply texts.  A reply is a sequence of text parts; the parts that an     *)
(* f-string fills with user data are kept as "{...}" place holders.         *)

TrimesterQuestion == <<"Which trimester are you in?", "1. First", "2. Second", "3. Third">>

Greeting ==
    <<"{daily tip}", "Hi! I'm MamaMind, your AI-powered pregnancy nutrition coach.">>
    \o TrimesterQuestion

Numbered(list) == [i \in 1..Len(list) |-> list[i]]

MealPlanApology ==
    "Sorry, I couldn't generate your meal plan right now. Please try again later."
ProgressMessage ==
    "Generating your personalized meal plan... This may take a few moments."
GenericApology == "Sorry, something went wrong. Please try again later."
QAFallback ==
    "I'm having trouble right now. For pregnancy nutrition questions, please consult your healthcare provider."

\* what a handler hands back to process_message's caller:
\*   user     the row as last written by the handler
\*   reply    the returned text (<<>> when the handler raised)
\*   exc      "" or the name of the exception that left process_message
\*   handler  the method that handled the message
\*   pushed   texts pushed with WhatsAppHandler.send_message meanwhile
\*   log      Conversation rows saved meanwhile
\*   generate TRUE when _generate_meal_plan got past building user_profile
\*   ask      TRUE when _handle_nutrition_question got to sonar.get_nutrition_answer
Res(user, reply, handler) ==
    [user |-> user, reply |-> reply, exc |-> "", handler |-> handler,
     pushed |-> <<>>, log |-> <<>>, generate |-> FALSE, ask |-> FALSE]

Raise(user, exc, handler) ==
    [user |-> user, reply |-> <<>>, exc |-> exc, handler |-> handler,
     pushed |-> <<>>, log |-> <<>>, generate |-> FALSE, ask |-> FALSE]

----------------------------------------------------------------------------
(* BotLogic: onboarding handlers *)

_show_menu(user) ==
    IF user.conversation_state = "COMPLETED_ONBOARDING"
    THEN Res(user, <<"MamaMind Menu">>, "_show_menu")
    ELSE Res(user, <<"Let me help you complete your profile first!">>, "_show_menu")

\* an onboarding start that also puts the profile back to its defaults
_handle_onboarding_start_Clearing(user) ==
    Res([reset_preferences(user) EXCEPT !.conversation_state = "AWAITING_TRIMESTER"],
        Greeting, "_handle_onboarding_start")

_handle_onboarding_start(user) ==
    Res([user EXCEPT !.conversation_state = "AWAITING_TRIMESTER"],
        Greeting, "_handle_onboarding_start")

WithPrefix(prefix, res) == [res EXCEPT !.reply = <<prefix>> \o res.reply]

\* a reset confirmation whose refusal puts the model default back instead of
\* COMPLETED_ONBOARDING
_handle_reset_confirmation_BackToDefault(user, message) ==
    IF Lower(message) = <<"y","e","s">>
    THEN LET cleared == [reset_preferences(user) EXCEPT
                             !.conversation_state = "ONBOARDING_START"]
         IN  [WithPrefix("Profile cleared. Let's start fresh! ",
                         _handle_onboarding_start(cleared))
                 EXCEPT !.handler = "_handle_reset_confirmation"]
    ELSE Res([user EXCEPT !.conversation_state = DefaultState],
             <<"Okay, your profile remains unchanged. Type a question or 'Generate meal plan' to continue.">>,
             "_handle_reset_confirmation")

_handle_reset_confirmation(user, message) ==
    IF Lower(message) = <<"y","e","s">>
    THEN LET cleared == [reset_preferences(user) EXCEPT
                             !.conversation_state = "ONBOARDING_START"]
         IN  [WithPrefix("Profile cleared. Let's start fresh! ",
                         _handle_onboarding_start(cleared))
                 EXCEPT !.handler = "_handle_reset_confirmation"]
    ELSE Res([user EXCEPT !.conversation_state = "COMPLETED_ONBOARDING"],
             <<"Okay, your profile remains unchanged. Type a question or 'Generate meal plan' to continue.">>,
             "_handle_reset_confirmation")

\* a trimester handler that stores the number before it checks the range
_handle_trimester_response_StoreFirst(user, message) ==
    IF ~IsIntText(message)
    THEN Res(user, <<"Please enter a valid number for your trimester.">>,
             "_handle_trimester_response")
    ELSE LET trimester == ToInt(message)
             stored == [user EXCEPT !.trimester = trimester]
         IN  IF trimester \notin SeqToSet(TRIMESTERS)
             THEN Res(stored, <<"Please enter a valid trimester (1, 2, or 3).">>,
                      "_handle_trimester_response")
             ELSE Res([stored EXCEPT !.conversation_state = "AWAITING_DIETARY_PREFERENCES"],
                      <<"Thanks! Do you have any dietary restrictions or preferences?">>
                          \o Numbered(DIETARY_PREFERENCES),
                      "_handle_trimester_response")

_handle_trimester_response(user, message) ==
    IF ~IsIntText(message)
    THEN Res(user, <<"Please enter a valid number for your trimester.">>,
             "_handle_trimester_response")
    ELSE LET trimester == ToInt(message) IN
         IF trimester \notin SeqToSet(TRIMESTERS)
         THEN Res(user, <<"Please enter a valid trimester (1, 2, or 3).">>,
                  "_handle_trimester_response")
         ELSE Res([user EXCEPT !.trimester = trimester,
                               !.conversation_state = "AWAITING_DIETARY_PREFERENCES"],
                  <<"Thanks! Do you have any dietary restrictions or preferences?">>
                      \o Numbered(DIETARY_PREFERENCES),
                  "_handle_trimester_response")

\* [int(x.strip()) for x in message.split(',')]: ValueError if any piece is not an int
SelectionsParse(message) ==
    LET pieces == SplitComma(message) IN
    [ok |-> \A i \in 1..Len(pieces) : IsIntText(pieces[i]),
     selections |-> [i \in 1..Len(pieces) |->
                        IF IsIntText(pieces[i]) THEN ToInt(pieces[i]) ELSE 0]]

\* any(s < 1 or s > len(options) for s in selections)
OutOfRange(selections, options) ==
    \E i \in 1..Len(selections) : selections[i] < 1 \/ selections[i] > Len(options)

\* a loop in which only the last selection decides whether "Other" was chosen
RECURSIVE DietaryLoop_LastWins(_, _)
DietaryLoop_LastWins(selections, acc) ==
    IF selections = <<>> THEN acc
    ELSE LET pref_name == DIETARY_PREFERENCES[Head(selections)] IN
         DietaryLoop_LastWins(Tail(selections),
             IF pref_name = "Other"
             THEN [acc EXCEPT !.other = TRUE,
                              !.user.conversation_state = "AWAITING_OTHER_DIETARY"]
             ELSE [acc EXCEPT !.other = FALSE,
                              !.user.dietary_preferences = @ \cup {pref_name}])

\* the for-loop of _handle_dietary_preferences_response, one selection per round;
\* acc.other is other_input (TRUE once it holds the prompt)
RECURSIVE DietaryLoop(_, _)
DietaryLoop(selections, acc) ==
    IF selections = <<>> THEN acc
    ELSE LET pref_name == DIETARY_PREFERENCES[Head(selections)] IN
         DietaryLoop(Tail(selections),
             IF pref_name = "Other"
             THEN [acc EXCEPT !.other = TRUE,
                              !.user.conversation_state = "AWAITING_OTHER_DIETARY"]
             ELSE [acc EXCEPT !.user.dietary_preferences = @ \cup {pref_name}])

_handle_dietary_preferences_response(user, message) ==
    LET p == SelectionsParse(message) IN
    IF ~p.ok
    THEN Res(user, <<"Please enter valid numbers for your dietary preferences.">>,
             "_handle_dietary_preferences_response")
    ELSE IF OutOfRange(p.selections, DIETARY_PREFERENCES)
    THEN Res(user, <<"Please enter valid numbers between 1 and {len}.">>,
             "_handle_dietary_preferences_response")
    ELSE LET acc == DietaryLoop(p.selections,
                        [user |-> [user EXCEPT !.dietary_preferences = {}],
                         other |-> FALSE])
         IN  IF acc.other
             THEN Res(acc.user, <<"Please specify your other dietary preferences:">>,
                      "_handle_dietary_preferences_response")
             ELSE Res([acc.user EXCEPT !.conversation_state = "AWAITING_ALLERGIES"],
                      <<"Got it - {selected_prefs}!",
                        "Any food allergies or intolerances I should know about?">>,
                      "_handle_dietary_preferences_response")

\* not reachable from process_message, which has no branch for AWAITING_OTHER_DIETARY
_handle_other_dietary_response(user, message) ==
    Res([[a \in DOMAIN user \cup {"other_dietary_preferences"} |->
             IF a = "other_dietary_preferences" THEN Strip(message) ELSE user[a]]
            EXCEPT !.conversation_state = "AWAITING_ALLERGIES"],
        <<"Got it - {message} added to your preferences!",
          "Any food allergies or intolerances I should know about?">>,
        "_handle_other_dietary_response")

_handle_allergies_response(user, message) ==
    LET stripped == Strip(message)
        allergies == IF Lower(stripped) = <<"n","o","n","e">> THEN <<>> ELSE stripped
    IN  Res([user EXCEPT !.allergies = allergies,
                         !.conversation_state = "AWAITING_CULTURAL_PREFERENCES"],
            <<IF allergies = <<>> THEN "Noted - no allergies." ELSE "Noted - avoiding {allergies}.",
              "Which cuisine or cultural food traditions do you typically follow?">>,
            "_handle_allergies_response")

_handle_cultural_preferences_response(user, message) ==
    Res([user EXCEPT !.cultural_preferences = Strip(message),
                     !.conversation_state = "AWAITING_PREGNANCY_CONDITIONS"],
        <<"Wonderful! {cultural_pref} cuisine has many excellent options perfect for pregnancy.",
          "Have you been diagnosed with any pregnancy-related conditions? Select all that apply:">>
            \o Numbered(PREGNANCY_CONDITIONS),
        "_handle_cultural_preferences_response")

\* a loop that stores "None" like any other condition
RECURSIVE ConditionsLoop_StoresNone(_, _)
ConditionsLoop_StoresNone(selections, acc) ==
    IF selections = <<>> THEN acc
    ELSE LET cond_name == PREGNANCY_CONDITIONS[Head(selections)] IN
         ConditionsLoop_StoresNone(Tail(selections),
             IF cond_name = "Other"
             THEN [acc EXCEPT !.other = TRUE,
                              !.user.conversation_state = "AWAITING_OTHER_CONDITIONS"]
             ELSE [acc EXCEPT !.user.pregnancy_conditions = @ \cup {cond_name}])

\* the for-loop of _handle_pregnancy_conditions_response
RECURSIVE ConditionsLoop(_, _)
ConditionsLoop(selections, acc) ==
    IF selections = <<>> THEN acc
    ELSE LET cond_name == PREGNANCY_CONDITIONS[Head(selections)] IN
         ConditionsLoop(Tail(selections),
             IF cond_name = "Other"
             THEN [acc EXCEPT !.other = TRUE,
                              !.user.conversation_state = "AWAITING_OTHER_CONDITIONS"]
             ELSE IF cond_name # "None"
             THEN [acc EXCEPT !.user.pregnancy_conditions = @ \cup {cond_name}]
             ELSE acc)

_handle_pregnancy_conditions_response(user, message) ==
    LET p == SelectionsParse(message) IN
    IF ~p.ok
    THEN Res(user, <<"Please enter valid numbers for your pregnancy conditions.">>,
             "_handle_pregnancy_conditions_response")
    ELSE IF OutOfRange(p.selections, PREGNANCY_CONDITIONS)
    THEN Res(user, <<"Please enter valid numbers between 1 and {len}.">>,
             "_handle_pregnancy_conditions_response")
    ELSE LET acc == ConditionsLoop(p.selections,
                        [user |-> [user EXCEPT !.pregnancy_conditions = {}],
                         other |-> FALSE])
         IN  IF acc.other
             THEN Res(acc.user, <<"Please specify your other pregnancy conditions:">>,
                      "_handle_pregnancy_conditions_response")
             ELSE Res([acc.user EXCEPT !.conversation_state = "AWAITING_USAGE_PREFERENCES"],
                      <<"Thanks - {confirmation}",
                        "How would you like to use MamaMind? Choose your preferences:">>
                          \o Numbered(USAGE_PREFERENCES),
                      "_handle_pregnancy_conditions_response")

\* not reachable from process_message, which has no branch for AWAITING_OTHER_CONDITIONS
_handle_other_conditions_response(user, message) ==
    Res([[a \in DOMAIN user \cup {"other_conditions"} |->
             IF a = "other_conditions" THEN Strip(message) ELSE user[a]]
            EXCEPT !.conversation_state = "AWAITING_USAGE_PREFERENCES"],
        <<"Thanks - I'll note {message}.",
          "How would you like to use MamaMind? Choose your preferences:">>
            \o Numbered(USAGE_PREFERENCES),
        "_handle_other_conditions_response")

\* reads user.other_dietary_preferences and user.other_conditions
_get_onboarding_completion_message(user) ==
    IF ~ProfileReadable(user)
    THEN Raise(user, "AttributeError", "_get_onboarding_completion_message")
    ELSE Res(user, <<"Perfect! Your profile is set up. Based on your information:",
                     "{profile_summary}", "What would you like to do?">>,
             "_get_onboarding_completion_message")

_handle_usage_preferences_response(user, message) ==
    LET p == SelectionsParse(message)
        all == Strip(message) = <<"5">>
        done(u) == [_get_onboarding_completion_message(
                        [u EXCEPT !.conversation_state = "COMPLETED_ONBOARDING"])
                       EXCEPT !.handler = "_handle_usage_preferences_response"]
    IN  IF all
        THEN done([user EXCEPT !.wants_meal_plans = TRUE,
                               !.wants_nutrition_tips = TRUE,
                               !.wants_recipe_suggestions = TRUE,
                               !.wants_nutrition_qa = TRUE])
        ELSE IF ~p.ok
        THEN Res(user, <<"Please enter valid numbers for your usage preferences.">>,
                 "_handle_usage_preferences_response")
        ELSE IF OutOfRange(p.selections, USAGE_PREFERENCES)
        THEN Res(user, <<"Please enter valid numbers between 1 and {len}.">>,
                 "_handle_usage_preferences_response")
        ELSE done([user EXCEPT
                       !.wants_meal_plans = 1 \in SeqToSet(p.selections),
                       !.wants_nutrition_tips = 2 \in SeqToSet(p.selections),
                       !.wants_recipe_suggestions = 3 \in SeqToSet(p.selections),
                       !.wants_nutrition_qa = 4 \in SeqToSet(p.selections)])

----------------------------------------------------------------------------
(* JSON values as the completion service returns them: an object is tagged  *)
(* "dict" and carries its key -> value function, anything else is tagged by *)
(* its type and has no keys.                                                *)

JDict(f) == [t |-> "dict", v |-> f]
JOther == [t |-> "str"]

\* isinstance(x, dict)
IsDict(x) == x.t = "dict"
\* key in d
JHas(d, key) == IsDict(d) /\ key \in DOMAIN d.v
\* d.get(key, default)
JGet(d, key, default) == IF key \in DOMAIN d.v THEN d.v[key] ELSE default
\* len(d) of an object
JLen(d) == Cardinality(DOMAIN d.v)

----------------------------------------------------------------------------
(* MealPlan rows and the handlers that read them *)

\* MealPlan.objects.filter(user=user): the user's rows, oldest first
PlansOf(plans, phone) ==
    LET F[i \in 0..Len(plans)] ==
            IF i = 0 THEN <<>>
            ELSE IF plans[i].user = phone THEN Append(F[i - 1], plans[i]) ELSE F[i - 1]
    IN  F[Len(plans)]

\* str.capitalize(): first character upper-cased, the rest lower-cased; only the
\* lower-cased form is ever compared, so the case of the first letter is immaterial
DayNameTyped(message) == Lower(Strip(message))

StartsWith(s, prefix) ==
    Len(prefix) <= Len(s) /\ SubSeq(s, 1, Len(prefix)) = prefix

Prefix3(s) == SubSeq(s, 1, IF Len(s) < 3 THEN Len(s) ELSE 3)

\* the two matching loops of _handle_meal_plan_day_selection: index of the selected
\* day in days_data, 0 when nothing matches
SelectedDayIndex(days_data, message) ==
    LET typed == DayNameTyped(message)
        name(i) == Lower(JGet(days_data[i], "day", <<>>))
        exact == {i \in 1..Len(days_data) : name(i) = typed}
        partial == {i \in 1..Len(days_data) :
                       Contains(name(i), typed) \/ StartsWith(name(i), Prefix3(typed))}
        first(S) == CHOOSE i \in S : \A j \in S : i <= j
    IN  IF exact # {} THEN first(exact)
        ELSE IF partial # {} THEN first(partial)
        ELSE 0

\* a day name as it stands in a reply
Joined(name) ==
    IF name = <<"M","o","n","d","a","y">> THEN "Monday"
    ELSE IF name = <<"T","u","e","s","d","a","y">> THEN "Tuesday"
    ELSE IF name = <<"W","e","d","n","e","s","d","a","y">> THEN "Wednesday"
    ELSE IF name = <<"T","h","u","r","s","d","a","y">> THEN "Thursday"
    ELSE IF name = <<"F","r","i","d","a","y">> THEN "Friday"
    ELSE "{day}"

\* a reply that names no day
AvailableDays_NoNames(days_data) ==
    <<"I couldn't find '{day_name}' in your meal plan. Available days:",
      "Please type one of these day names.">>

\* the reply to a text that matches no day: the names of the stored days
AvailableDays(days_data) ==
    <<"I couldn't find '{day_name}' in your meal plan. Available days:">>
        \o [i \in 1..Len(days_data) |-> Joined(JGet(days_data[i], "day", <<>>))]
        \o <<"Please type one of these day names.">>

ShareQuestion == "Want to share this plan with your partner or midwife? Reply 'Yes' or 'No'."

\* The meals of the selected day are laid out (RenderDay gives the text), then the
\* user_profile dict is built for the tip, then the state is saved.  A meal value
\* that is no dict has no .get and raises.
_handle_meal_plan_day_selection(from_number, user, plans, message) ==
    LET mine == PlansOf(plans, from_number)
        H == "_handle_meal_plan_day_selection"
    IN  IF mine = <<>>
        THEN Res(user, <<"I don't have a meal plan generated for you yet.">>, H)
        ELSE LET days_data == mine[Len(mine)].meal_plan_data.days
                 k == SelectedDayIndex(days_data, message)
                 meals_data == JGet(days_data[k], "meals", JDict(<<>>))
             IN  IF days_data = <<>>
                 THEN Res(user, <<"Sorry, there was an issue with your meal plan.">>, H)
                 ELSE IF k = 0
                 THEN Res(user, AvailableDays(days_data), H)
                 ELSE IF JLen(meals_data) = 0
                 THEN Res(user, <<"Sorry, no meal data found for {day}.">>, H)
                 ELSE IF \E slot \in DOMAIN meals_data.v : ~IsDict(meals_data.v[slot])
                 THEN Raise(user, "AttributeError", H)
                 ELSE IF ~ProfileReadable(user)
                 THEN Raise(user, "AttributeError", H)
                 ELSE Res([user EXCEPT !.conversation_state = "AWAITING_SHARE_CONFIRMATION"],
                          <<Joined(JGet(days_data[k], "day", <<>>)), "{meals}", "{tip}",
                            ShareQuestion>>,
                          H)

\* a summary that always takes the first day of the plan
_format_meal_plan_for_sharing_FirstDay(meal_plan, day_name) ==
    LET days == meal_plan.meal_plan_data.days
    IN  [week_number |-> meal_plan.week_number,
         day |-> JGet(days[1], "day", <<"T","o","d","a","y">>),
         meals |-> JGet(days[1], "meals", JDict(<<>>))]

\* _format_meal_plan_for_sharing(meal_plan, day_name) with a day name: the text
\* made of the week number and of the first day entry whose name, case folded,
\* is the given one; the text is modelled by the values it is made of
_format_meal_plan_for_sharing(meal_plan, day_name) ==
    LET days == meal_plan.meal_plan_data.days
        named == {k \in 1..Len(days) : Lower(JGet(days[k], "day", <<>>)) = Lower(day_name)}
        first == CHOOSE k \in named : \A j \in named : k <= j
    IN  IF named = {} THEN "Day not found."
        ELSE [week_number |-> meal_plan.week_number,
              day |-> JGet(days[first], "day", <<"T","o","d","a","y">>),
              meals |-> JGet(days[first], "meals", JDict(<<>>))]

\* ... and without one (day_name is None): the names of every day of the plan
WholePlanSummary(meal_plan) ==
    [week_number |-> meal_plan.week_number, days |-> meal_plan.meal_plan_data.days]

\* _handle_share_confirmation: "yes" pushes the text summary of the day named by
\* the last entry of the latest plan, then the PDF notice of send_pdf
_handle_share_confirmation(from_number, user, plans, message) ==
    LET mine == PlansOf(plans, from_number)
        H == "_handle_share_confirmation"
    IN  IF Lower(message) = <<"y","e","s">>
        THEN IF mine = <<>>
             THEN Res(user, <<"No meal plan found to share.">>, H)
             ELSE IF mine[Len(mine)].meal_plan_data.days = <<>>
             THEN Raise(user, "IndexError", H)
             ELSE LET meal_plan == mine[Len(mine)]
                      days == meal_plan.meal_plan_data.days
                      text_summary ==
                          IF JHas(days[Len(days)], "day")
                          THEN _format_meal_plan_for_sharing(meal_plan, days[Len(days)].v.day)
                          ELSE WholePlanSummary(meal_plan)
                  IN  IF ~IsDict(days[Len(days)])
                      THEN Raise(user, "AttributeError", H)
                      ELSE [Res([user EXCEPT !.conversation_state = "COMPLETED_ONBOARDING"],
                                <<"Plan shared as text! Check the message above for PDF details.">>, H)
                               EXCEPT !.pushed = <<text_summary, "{pdf notice}">>]
        ELSE Res([user EXCEPT !.conversation_state = "COMPLETED_ONBOARDING"],
                 <<"Okay, let's continue. Type a day or ask a question.">>, H)

\* _handle_nutrition_question up to the call of sonar.get_nutrition_answer: the
\* user_profile dict is built outside the try, an AttributeError leaves the method
_handle_nutrition_question(from_number, user, message) ==
    LET H == "_handle_nutrition_question" IN
    IF ~ProfileReadable(user)
    THEN Raise(user, "AttributeError", H)
    ELSE [Res(user, <<>>, H) EXCEPT !.ask = TRUE]

\* ... and from the call on: sonar is what get_nutrition_answer does, "answer"
\* returns a text and "raise" raises; either way one Conversation row is saved
NutritionAnswer(from_number, message, res, sonar) ==
    LET response == IF sonar = "answer" THEN "{answer}" ELSE QAFallback IN
    [res EXCEPT !.reply = <<response>>,
                !.log = <<[user |-> from_number, message |-> message,
                           response |-> response]>>,
                !.ask = FALSE]

\* The opening of _generate_meal_plan: the progress push, then the user_profile dict.
\* An AttributeError raised there is caught by the outer except, which pushes and
\* returns the apology.  Past that point the retry loop runs (GenAttempt and on).
_generate_meal_plan(user, is_scheduled) ==
    LET H == "_generate_meal_plan" IN
    IF ~ProfileReadable(user)
    THEN [Res(user, <<MealPlanApology>>, H) EXCEPT
             !.pushed = IF is_scheduled THEN <<>> ELSE <<ProgressMessage, MealPlanApology>>]
    ELSE [Res(user, <<>>, H) EXCEPT
             !.pushed = IF is_scheduled THEN <<>> ELSE <<ProgressMessage>>,
             !.generate = TRUE]

----------------------------------------------------------------------------
(* BotLogic.process_message, after get_or_create and the last_active save *)

StartCommands == {<<"s","t","a","r","t">>, <<"h","i">>, <<"h","e","l","l","o">>}
SettingsCommands == {<<"s","e","t","t","i","n","g","s">>, <<"u","p","d","a","t","e"," ","p","r","e","f","e","r","e","n","c","e","s">>}
MenuCommands == {<<"m","e","n","u">>, <<"h","e","l","p">>, <<"o","p","t","i","o","n","s">>}
MealPlanCommands == {<<"m","e","a","l"," ","p","l","a","n">>, <<"g","e","n","e","r","a","t","e"," ","m","e","a","l"," ","p","l","a","n">>}

\* the state dispatch at the end of process_message
Dispatch(from_number, user, message_body, plans) ==
    LET st == user.conversation_state IN
    IF st = "CONFIRM_RESET" THEN _handle_reset_confirmation(user, message_body)
    ELSE IF st = "ONBOARDING_START" THEN _handle_onboarding_start(user)
    ELSE IF st = "AWAITING_TRIMESTER" THEN _handle_trimester_response(user, message_body)
    ELSE IF st = "AWAITING_DIETARY_PREFERENCES"
        THEN _handle_dietary_preferences_response(user, message_body)
    ELSE IF st = "AWAITING_ALLERGIES" THEN _handle_allergies_response(user, message_body)
    ELSE IF st = "AWAITING_CULTURAL_PREFERENCES"
        THEN _handle_cultural_preferences_response(user, message_body)
    ELSE IF st = "AWAITING_PREGNANCY_CONDITIONS"
        THEN _handle_pregnancy_conditions_response(user, message_body)
    ELSE IF st = "AWAITING_USAGE_PREFERENCES"
        THEN _handle_usage_preferences_response(user, message_body)
    ELSE IF st = "AWAITING_MEAL_PLAN_DAY"
        THEN _handle_meal_plan_day_selection(from_number, user, plans, message_body)
    ELSE IF st = "AWAITING_SHARE_CONFIRMATION"
        THEN _handle_share_confirmation(from_number, user, plans, message_body)
    ELSE _handle_nutrition_question(from_number, user, message_body)

\* the command checks at the top of process_message: message_body.lower(), not stripped
IsGlobalCommand(message_body) ==
    Lower(message_body) \in
        StartCommands \cup {<<"e","n","d">>, <<"s","t","a","r","t"," ","o","v","e","r">>}
            \cup SettingsCommands \cup MenuCommands \cup MealPlanCommands

process_message(from_number, user, message_body, plans) ==
    LET m == Lower(message_body) IN
    IF m \in StartCommands
    THEN _handle_onboarding_start([user EXCEPT !.conversation_state = "ONBOARDING_START"])
    ELSE IF m = <<"e","n","d">>
    THEN Res([user EXCEPT !.conversation_state = "COMPLETED_ONBOARDING"],
             <<"Thank you for using MamaMind! Your preferences have been saved. Type 'Start' anytime to chat again.">>,
             "end")
    ELSE IF m = <<"s","t","a","r","t"," ","o","v","e","r">>
    THEN Res([user EXCEPT !.conversation_state = "CONFIRM_RESET"],
             <<"This will clear your profile. Confirm? (Yes/No)">>, "start over")
    ELSE IF m \in SettingsCommands
    THEN WithPrefix("Let's update your preferences. ",
             _handle_onboarding_start([user EXCEPT !.conversation_state = "ONBOARDING_START"]))
    ELSE IF m \in MenuCommands THEN _show_menu(user)
    ELSE IF m \in MealPlanCommands THEN _generate_meal_plan(user, FALSE)
    ELSE Dispatch(from_number, user, message_body, plans)

\* views.is_meal_plan_request
meal_plan_keywords ==
    <<<<"m","e","a","l"," ","p","l","a","n">>,
      <<"m","e","a","l","p","l","a","n">>,
      <<"w","e","e","k","l","y"," ","p","l","a","n">>,
      <<"f","o","o","d"," ","p","l","a","n">>,
      <<"n","u","t","r","i","t","i","o","n"," ","p","l","a","n">>,
      <<"e","a","t","i","n","g"," ","p","l","a","n">>,
      <<"m","e","n","u">>,
      <<"m","e","a","l","s">>>>

is_meal_plan_request(message_body) ==
    LET message_lower == Strip(Lower(message_body)) IN
    \E i \in 1..Len(meal_plan_keywords) : Contains(message_lower, meal_plan_keywords[i])

----------------------------------------------------------------------------
(* The modelled senders and what they type *)

Phones == {"+15550001"}

\* concurrent executions of _generate_meal_plan
MaxThreads == 2
Threads == 1..MaxThreads

CommandTexts ==
    {<<"h","i">>,
     <<"H","e","l","l","o">>,
     <<"S","T","A","R","T">>,
     <<"e","n","d">>,
     <<"S","t","a","r","t"," ","O","v","e","r">>,
     <<"s","e","t","t","i","n","g","s">>,
     <<"u","p","d","a","t","e"," ","p","r","e","f","e","r","e","n","c","e","s">>,
     <<"m","e","n","u">>,
     <<"h","e","l","p">>,
     <<"o","p","t","i","o","n","s">>,
     <<"m","e","a","l"," ","p","l","a","n">>,
     <<"G","e","n","e","r","a","t","e"," ","M","e","a","l"," ","P","l","a","n">>}

\* texts that views.is_meal_plan_request accepts and process_message does not
\* treat as the meal-plan command
FuzzyTexts ==
    {<<"m","e","a","l","s">>,
     <<" ","m","e","a","l"," ","p","l","a","n">>,
     <<"m","y"," ","w","e","e","k","l","y"," ","p","l","a","n">>}

TrimesterTexts ==
    {<<"1">>,
     <<"3">>,
     <<" ","3"," ">>,
     <<"7">>,
     <<"0">>,
     <<"x">>,
     <<>>,
     <<"1",",","3">>}

DietaryTexts ==
    {<<"1">>,
     <<"1",",","3">>,
     <<"6">>,
     <<"1",",","6">>,
     <<"6",",","1">>,
     <<"3",",","6",",","1">>,
     <<"7">>,
     <<"1",",","7">>,
     <<"7",",","6">>,
     <<"0">>,
     <<"x">>,
     <<"1",",","x">>,
     <<"x",",","6">>,
     <<>>,
     <<"1",","," ","3">>,
     <<"1",",",",","3">>}

ConditionTexts ==
    {<<"1">>,
     <<"5">>,
     <<"1",",","5">>,
     <<"6">>,
     <<"1",",","6">>,
     <<"6",",","1">>,
     <<"5",",","6">>,
     <<"7">>,
     <<"7",",","6">>,
     <<"x">>,
     <<"1",",","x">>,
     <<>>}

UsageTexts ==
    {<<"5">>,
     <<" ","5"," ">>,
     <<"1">>,
     <<"1",",","3">>,
     <<"1",",","5">>,
     <<"5",",","5">>,
     <<"6">>,
     <<"0">>,
     <<"x">>,
     <<"1",",","x">>,
     <<>>}

AnswerTexts ==
    {<<"y","e","s">>,
     <<"Y","E","S">>,
     <<"n","o">>,
     <<" ","y","e","s">>}

FreeTexts ==
    {<<" ","n","u","t","s"," ">>,
     <<" ","N","O","N","E"," ">>}

\* what the sender types, given the question last put to them
Typed(state) ==
    IF state = "AWAITING_TRIMESTER" THEN TrimesterTexts
    ELSE IF state = "AWAITING_DIETARY_PREFERENCES" THEN DietaryTexts
    ELSE IF state = "AWAITING_PREGNANCY_CONDITIONS" THEN ConditionTexts
    ELSE IF state = "AWAITING_USAGE_PREFERENCES" THEN UsageTexts
    ELSE IF state \in {"CONFIRM_RESET", "AWAITING_SHARE_CONFIRMATION"} THEN AnswerTexts
    ELSE FreeTexts

Inbound(state) ==
    CommandTexts \cup Typed(state) \cup
        (IF state \in {"AWAITING_ALLERGIES", "AWAITING_CULTURAL_PREFERENCES"}
         THEN {} ELSE FuzzyTexts)

\* what is typed when a day of the plan is asked for
DayTexts ==
    {<<"M","o","n","d","a","y">>,
     <<" ","t","u","e","s","d","a","y"," ">>,
     <<"T","U","E">>,
     <<"m">>,
     <<"d","a","y">>,
     <<"o","n">>,
     <<"m","o","n","k","e","y">>,
     <<"T","u","e","s","d","a","y","s">>,
     <<"f","r","i","d","a","y">>,
     <<"x","y","z">>,
     <<>>}

AllTexts ==
    CommandTexts \cup FuzzyTexts \cup TrimesterTexts \cup DietaryTexts \cup ConditionTexts
        \cup UsageTexts \cup AnswerTexts \cup FreeTexts \cup DayTexts

SonarAnswers == {"answer", "raise"}

\* the typed texts for which views.is_meal_plan_request holds
MealPlanRequests == {m \in AllTexts : is_meal_plan_request(m)}

\* User.objects.get_or_create(phone_number=from_number)
get_or_create(from_number) ==
    IF from_number \in DOMAIN users THEN users[from_number] ELSE NewUser

StateOf(from_number) == get_or_create(from_number).conversation_state

SaveUser(from_number, row) ==
    [p \in DOMAIN users \cup {from_number} |-> IF p = from_number THEN row ELSE users[p]]

\* the body of a pushed message: a fixed text, or the summary of a plan
Text(s) == [text |-> s]

\* whatsapp.send_message(to, text), once per text
Pushes(to, texts) == [i \in 1..Len(texts) |-> [to |-> to, body |-> Text(texts[i])]]

IdleThread == [pc |-> "idle"]

\* a request as the last operation records it: who sent what, which method
\* handled it, how it ended
Request(op, from_number, message_body, handler, status, exc, reply) ==
    [op |-> op, from_number |-> from_number, message_body |-> message_body,
     handler |-> handler, status |-> status, exc |-> exc, reply |-> reply]

NoRequest == Request("none", "", <<>>, "", 0, "", <<>>)

----------------------------------------------------------------------------
(* Init: no user has written yet *)

Init ==
    /\ users = [p \in {} |-> NewUser]
    /\ mealPlans = <<>>
    /\ convLog = <<>>
    /\ last = NoRequest
    /\ sent = <<>>
    /\ gen = [t \in Threads |-> IdleThread]

----------------------------------------------------------------------------
(* _generate_meal_plan past the user_profile dict: week number, the retry   *)
(* loop around SonarAPI.generate_meal_plan, the save and the summary.  Each *)
(* action is one step of one thread; database statements are the units.     *)

max_retries == 3
retry_delay == 2

\* random.randint outcomes kept per band: the band's ends and the weeks next to its start
MaxWeekOffset == 1
WeekSample(lo, hi) == {w \in lo..hi : w - lo < MaxWeekOffset \/ w = hi}

\* week bands in which the second one starts a week early
WeekChoices_EarlySecondBand(trimester) ==
    IF trimester = 1 THEN WeekSample(1, 12)
    ELSE IF trimester = 2 THEN WeekSample(12, 26)
    ELSE WeekSample(27, 40)

\* the week band chosen from user.trimester (None and anything else fall in the last)
WeekChoices(trimester) ==
    IF trimester = 1 THEN WeekSample(1, 12)
    ELSE IF trimester = 2 THEN WeekSample(13, 26)
    ELSE WeekSample(27, 40)

\* day entries a completion may hold
Meal(name) == JDict([name |-> name])
DayEntry(day, meals) == JDict([day |-> day, meals |-> meals])
Monday == DayEntry(<<"M","o","n","d","a","y">>, JDict([Breakfast |-> Meal("oats"), Dinner |-> Meal("stew")]))
Tuesday == DayEntry(<<"T","u","e","s","d","a","y">>, JDict([Lunch |-> Meal("rice")]))
NoMealsDay == DayEntry(<<"W","e","d","n","e","s","d","a","y">>, JDict(<<>>))
ListMealsDay == DayEntry(<<"T","h","u","r","s","d","a","y">>, JOther)
NoDayKey == JDict([meals |-> JDict([Lunch |-> Meal("rice")])])
NoMealsKey == JDict([day |-> <<"F","r","i","d","a","y">>])

DayItems == {Monday, NoMealsDay, ListMealsDay, NoDayKey, NoMealsKey, JOther}

\* longest days list a completion holds here
MaxDays == 2

DaysLists == UNION {[1..n -> DayItems] : n \in 1..MaxDays}

\* what one call of SonarAPI.generate_meal_plan does: it raises, it returns
\* {"error": ...}, or it returns {"days": [...]} with a non-empty list
SonarPlanOutcomes ==
    {[kind |-> "raise"], [kind |-> "error"]} \cup {[kind |-> "days", days |-> d] : d \in DaysLists}

\* a day filter that does not look into the meals value
DayIsValid_MealsUnchecked(day_data) ==
    /\ IsDict(day_data)
    /\ JHas(day_data, "day") /\ JHas(day_data, "meals")

\* the day filter of the retry loop
DayIsValid(day_data) ==
    /\ IsDict(day_data)
    /\ JHas(day_data, "day") /\ JHas(day_data, "meals")
    /\ IsDict(JGet(day_data, "meals", JDict(<<>>)))
    /\ JLen(JGet(day_data, "meals", JDict(<<>>))) # 0

valid_days(days_data) ==
    LET F[i \in 0..Len(days_data)] ==
            IF i = 0 THEN <<>>
            ELSE IF DayIsValid(days_data[i]) THEN Append(F[i - 1], days_data[i]) ELSE F[i - 1]
    IN  F[Len(days_data)]

\* one attempt succeeds when the call returns days of which at least one is valid
AttemptSucceeds(outcome) ==
    outcome.kind = "days" /\ outcome.days # <<>> /\ valid_days(outcome.days) # <<>>

\* the row user.save() writes: the model's columns of the instance
Columns(instance) == [a \in DOMAIN NewUser |-> instance[a]]

\* a User instance carrying the two note attributes
WithNotes(row, other_dietary, other_cond) ==
    [a \in DOMAIN row \cup {"other_dietary_preferences", "other_conditions"} |->
        IF a = "other_dietary_preferences" THEN other_dietary
        ELSE IF a = "other_conditions" THEN other_cond
        ELSE row[a]]

\* the summary reply built from the validated plan
Summary(is_scheduled, week_number, meal_plan_data) ==
    [scheduled |-> is_scheduled, week |-> week_number,
     days |-> [i \in 1..Len(meal_plan_data.days) |->
                  JGet(meal_plan_data.days[i], "day", <<>>)]]

ApologyResponse == Text(MealPlanApology)

\* thread t enters the retry loop for the given instance
GenEnter(t, from_number, instance, is_scheduled, week_number) ==
    [gen EXCEPT ![t] =
        [pc |-> "attempt", phone |-> from_number, user |-> instance,
         is_scheduled |-> is_scheduled, week_number |-> week_number,
         attempt |-> 0, calls |-> 0, delays |-> <<>>,
         meal_plan_data |-> [days |-> <<>>], response |-> ApologyResponse]]


\* MealPlan.objects.filter(user=user, week_number=week_number).delete()
DeletePlans(plans, phone, week_number) ==
    LET F[i \in 0..Len(plans)] ==
            IF i = 0 THEN <<>>
            ELSE IF plans[i].user = phone /\ plans[i].week_number = week_number
                 THEN F[i - 1] ELSE Append(F[i - 1], plans[i])
    IN  F[Len(plans)]

\* a loop that clears the stored plan of the week when its last attempt fails
GenAttempt_DeleteOnFailure(t, outcome) ==
    LET g == gen[t] IN
    /\ g.pc = "attempt"
    /\ IF AttemptSucceeds(outcome)
       THEN /\ gen' = [gen EXCEPT ![t].calls = @ + 1,
                                  ![t].meal_plan_data = [days |-> valid_days(outcome.days)],
                                  ![t].pc = "delete"]
            /\ sent' = <<>>
            /\ mealPlans' = mealPlans
       ELSE IF g.attempt < max_retries - 1
       THEN /\ gen' = [gen EXCEPT ![t].calls = @ + 1,
                                  ![t].attempt = @ + 1,
                                  ![t].delays = Append(@, retry_delay)]
            /\ sent' = <<>>
            /\ mealPlans' = mealPlans
       ELSE /\ gen' = [gen EXCEPT ![t].calls = @ + 1,
                                  ![t].response = ApologyResponse,
                                  ![t].pc = IF g.is_scheduled THEN "returned" ELSE "done"]
            /\ sent' = IF g.is_scheduled THEN <<>>
                       ELSE Pushes(g.phone, <<MealPlanApology>>)
            /\ mealPlans' = DeletePlans(mealPlans, g.phone, g.week_number)
    /\ UNCHANGED <<users, convLog, last>>

\* a loop that retries once more than max_retries allows
GenAttempt_OneMoreRetry(t, outcome) ==
    LET g == gen[t] IN
    /\ g.pc = "attempt"
    /\ IF AttemptSucceeds(outcome)
       THEN /\ gen' = [gen EXCEPT ![t].calls = @ + 1,
                                  ![t].meal_plan_data = [days |-> valid_days(outcome.days)],
                                  ![t].pc = "delete"]
            /\ sent' = <<>>
       ELSE IF g.attempt < max_retries
       THEN /\ gen' = [gen EXCEPT ![t].calls = @ + 1,
                                  ![t].attempt = @ + 1,
                                  ![t].delays = Append(@, retry_delay)]
            /\ sent' = <<>>
       ELSE /\ gen' = [gen EXCEPT ![t].calls = @ + 1,
                                  ![t].response = ApologyResponse,
                                  ![t].pc = IF g.is_scheduled THEN "returned" ELSE "done"]
            /\ sent' = IF g.is_scheduled THEN <<>>
                       ELSE Pushes(g.phone, <<MealPlanApology>>)
    /\ UNCHANGED <<users, mealPlans, convLog, last>>

\* sonar.generate_meal_plan is called and its result validated.  A failed attempt
\* sleeps retry_delay and loops, the last failed attempt returns the apology.
GenAttempt(t, outcome) ==
    LET g == gen[t] IN
    /\ g.pc = "attempt"
    /\ IF AttemptSucceeds(outcome)
       THEN /\ gen' = [gen EXCEPT ![t].calls = @ + 1,
                                  ![t].meal_plan_data = [days |-> valid_days(outcome.days)],
                                  ![t].pc = "delete"]
            /\ sent' = <<>>
       ELSE IF g.attempt < max_retries - 1
       THEN /\ gen' = [gen EXCEPT ![t].calls = @ + 1,
                                  ![t].attempt = @ + 1,
                                  ![t].delays = Append(@, retry_delay)]
            /\ sent' = <<>>
       ELSE /\ gen' = [gen EXCEPT ![t].calls = @ + 1,
                                  ![t].response = ApologyResponse,
                                  ![t].pc = IF g.is_scheduled THEN "returned" ELSE "done"]
            /\ sent' = IF g.is_scheduled THEN <<>>
                       ELSE Pushes(g.phone, <<MealPlanApology>>)
    /\ UNCHANGED <<users, mealPlans, convLog, last>>

GenDelete(t) ==
    LET g == gen[t] IN
    /\ g.pc = "delete"
    /\ mealPlans' = DeletePlans(mealPlans, g.phone, g.week_number)
    /\ gen' = [gen EXCEPT ![t].pc = "create"]
    /\ sent' = <<>>
    /\ UNCHANGED <<users, convLog, last>>

\* a MealPlan table without the unique_together constraint
UniqueViolation_NoConstraint(plans, phone, week_number) == FALSE

\* unique_together = ('user', 'week_number'): the insert raises IntegrityError
\* when a row with that pair exists
UniqueViolation(plans, phone, week_number) ==
    \E i \in 1..Len(plans) : plans[i].user = phone /\ plans[i].week_number = week_number

\* MealPlan.objects.create(...); an exception is logged and generation goes on
GenCreate(t) ==
    LET g == gen[t] IN
    /\ g.pc = "create"
    /\ mealPlans' =
           IF UniqueViolation(mealPlans, g.phone, g.week_number) THEN mealPlans
           ELSE Append(mealPlans, [user |-> g.phone, week_number |-> g.week_number,
                                   meal_plan_data |-> g.meal_plan_data])
    /\ gen' = [gen EXCEPT ![t].pc = "save_user"]
    /\ sent' = <<>>
    /\ UNCHANGED <<users, convLog, last>>

\* user.conversation_state = "AWAITING_MEAL_PLAN_DAY"; user.save() writes every
\* column of the instance the thread holds
GenSaveUser(t) ==
    LET g == gen[t]
        instance == [g.user EXCEPT !.conversation_state = "AWAITING_MEAL_PLAN_DAY"]
    IN  /\ g.pc = "save_user"
        /\ users' = SaveUser(g.phone, Columns(instance))
        /\ gen' = [gen EXCEPT ![t].user = instance, ![t].pc = "send"]
        /\ sent' = <<>>
        /\ UNCHANGED <<mealPlans, convLog, last>>

\* the summary is built, pushed unless scheduled, and returned
GenSend(t) ==
    LET g == gen[t]
        response == Summary(g.is_scheduled, g.week_number, g.meal_plan_data)
    IN  /\ g.pc = "send"
        /\ gen' = [gen EXCEPT ![t].response = response,
                              ![t].pc = IF g.is_scheduled THEN "returned" ELSE "done"]
        /\ sent' = IF g.is_scheduled THEN <<>> ELSE <<[to |-> g.phone, body |-> response]>>
        /\ UNCHANGED <<users, mealPlans, convLog, last>>

\* send_scheduled_meal_plan pushes whatever _generate_meal_plan returned
GenScheduledSend(t) ==
    LET g == gen[t] IN
    /\ g.pc = "returned"
    /\ gen' = [gen EXCEPT ![t].pc = "done"]
    /\ sent' = <<[to |-> g.phone, body |-> g.response]>>
    /\ UNCHANGED <<users, mealPlans, convLog, last>>

----------------------------------------------------------------------------
(* views.py: webhook, process_message_async, scheduled_tasks *)

\* bot.process_message(from_number, message_body) with the given User instance
\* loaded: the ways it can end
OutcomesOn(from_number, instance, message_body) ==
    LET res == process_message(from_number, instance, message_body, mealPlans)
    IN  IF res.ask
        THEN {NutritionAnswer(from_number, message_body, res, sonar) : sonar \in SonarAnswers}
        ELSE {res}

Outcomes(from_number, message_body) ==
    OutcomesOn(from_number, get_or_create(from_number), message_body)

\* most Conversation rows the table holds here
MaxLog == 1

\* its writes: the user row, the Conversation rows, a started generation
RunProcessMessage(from_number, res) ==
    /\ Len(convLog) + Len(res.log) <= MaxLog
    /\ users' = SaveUser(from_number, Columns(res.user))
    /\ convLog' = convLog \o res.log
    /\ mealPlans' = mealPlans
    /\ IF res.generate
       THEN \E t \in Threads, w \in WeekChoices(res.user.trimester) :
                /\ gen[t].pc = "idle"
                /\ gen' = GenEnter(t, from_number, res.user, FALSE, w)
       ELSE gen' = gen

\* webhook, the synchronous path: the reply goes back as TwiML, an exception
\* becomes a 500 JSON answer that carries str(e)
webhookOn(from_number, instance, message_body) ==
    /\ message_body \notin MealPlanRequests
    /\ \E res \in OutcomesOn(from_number, instance, message_body) :
         /\ RunProcessMessage(from_number, res)
         /\ last' = Request("webhook", from_number, message_body, res.handler,
                            IF res.exc = "" THEN 200 ELSE 500, res.exc, res.reply)
         /\ sent' = Pushes(from_number, res.pushed)

\* webhook, the background path: the thread is started, Twilio gets an empty TwiML,
\* and the thread runs process_message_async: the reply is only logged, an
\* exception pushes the generic apology
process_message_asyncOn(from_number, instance, message_body) ==
    /\ message_body \in MealPlanRequests
    /\ \E res \in OutcomesOn(from_number, instance, message_body) :
         /\ RunProcessMessage(from_number, res)
         /\ last' = Request("process_message_async", from_number, message_body,
                            res.handler, 200, res.exc, res.reply)
         /\ sent' = Pushes(from_number,
                           res.pushed \o (IF res.exc = "" THEN <<>>
                                          ELSE <<GenericApology>>))

\* the two paths with the instance get_or_create loads from the table
webhook(from_number, message_body) ==
    webhookOn(from_number, get_or_create(from_number), message_body)

process_message_async(from_number, message_body) ==
    process_message_asyncOn(from_number, get_or_create(from_number), message_body)

\* what scheduled_tasks does for one user: the pushes it makes.  send_daily_tip and
\* send_nudge build user_profile when wants_nutrition_tips is set; an exception
\* ends this user's round.
SweepUser(user, monday) ==
    LET tips_raise == user.wants_nutrition_tips /\ ~ProfileReadable(user)
        tips == IF user.wants_nutrition_tips /\ ProfileReadable(user)
                THEN <<"{tip of the day}", "{nudge}">> ELSE <<>>
        plan == IF ~tips_raise /\ monday /\ user.wants_meal_plans
                THEN _generate_meal_plan(user, TRUE).reply ELSE <<>>
    IN  tips \o plan

\* a scheduled plan that gets past the user_profile dict runs the retry loop
SweepReachesLoop(user, monday) ==
    /\ ~(user.wants_nutrition_tips /\ ~ProfileReadable(user))
    /\ monday /\ user.wants_meal_plans
    /\ _generate_meal_plan(user, TRUE).generate

RECURSIVE SetToSeq(_)
SetToSeq(S) ==
    IF S = {} THEN <<>>
    ELSE LET x == CHOOSE x \in S : TRUE IN <<x>> \o SetToSeq(S \ {x})

\* processing this user raises: the exception the loop's except clause catches
SweepRaises(user, monday) == user.wants_nutrition_tips /\ ~ProfileReadable(user)

\* a loop without the per-user try: the first exception ends the batch
RECURSIVE SweepAll_AbortOnFailure(_, _)
SweepAll_AbortOnFailure(todo, monday) ==
    IF todo = <<>> THEN <<>>
    ELSE IF SweepRaises(users[Head(todo)], monday) THEN <<>>
    ELSE Pushes(Head(todo), SweepUser(users[Head(todo)], monday))
             \o SweepAll_AbortOnFailure(Tail(todo), monday)

RECURSIVE SweepAll(_, _)
SweepAll(todo, monday) ==
    IF todo = <<>> THEN <<>>
    ELSE Pushes(Head(todo), SweepUser(users[Head(todo)], monday))
             \o SweepAll(Tail(todo), monday)

scheduled_tasks(monday) ==
    /\ \A p \in DOMAIN users : ~SweepReachesLoop(users[p], monday)
    /\ sent' = SweepAll(SetToSeq(DOMAIN users), monday)
    /\ last' = Request("scheduled_tasks", "", <<>>, "scheduled_tasks", 200, "",
                       <<"Scheduled tasks processed">>)
    /\ UNCHANGED <<users, mealPlans, convLog, gen>>

Receive == \E p \in Phones : \E m \in Inbound(StateOf(p)) : webhook(p, m)
ReceiveAsync == \E p \in Phones : \E m \in Inbound(StateOf(p)) : process_message_async(p, m)
Sweep == \E monday \in BOOLEAN : scheduled_tasks(monday)

Next == Receive \/ ReceiveAsync \/ Sweep

Spec == Init /\ [][Next]_vars

----------------------------------------------------------------------------
(* Properties of the conversation (specification Spec) *)

\* the step just taken handled message m from phone p
Handled(p, m) ==
    /\ last'.op \in {"webhook", "process_message_async"}
    /\ last'.from_number = p
    /\ last'.message_body = m

\* the state phone p was in when the message arrived
StateBefore(p) == IF p \in DOMAIN users THEN users[p].conversation_state ELSE DefaultState

\* the command words, spelled out in the cases the senders type them
StartTexts == {<<"h","i">>, <<"H","e","l","l","o">>, <<"S","T","A","R","T">>}
CommandWords ==
    StartTexts \cup
    {<<"e","n","d">>, <<"S","t","a","r","t"," ","O","v","e","r">>,
     <<"s","e","t","t","i","n","g","s">>,
     <<"u","p","d","a","t","e"," ","p","r","e","f","e","r","e","n","c","e","s">>,
     <<"m","e","n","u">>, <<"h","e","l","p">>, <<"o","p","t","i","o","n","s">>,
     <<"m","e","a","l"," ","p","l","a","n">>,
     <<"G","e","n","e","r","a","t","e"," ","M","e","a","l"," ","P","l","a","n">>}

\* a comma-separated selection that is not all numbers, or has a number outside 1..n
BadSelection(m, n) ==
    LET pieces == SplitComma(m) IN
    \E i \in 1..Len(pieces) : ~IsIntText(pieces[i]) \/ ToInt(pieces[i]) \notin 1..n

\* a comma-separated selection of numbers in 1..n, one of them k
SelectsAmongValid(m, n, k) ==
    /\ ~BadSelection(m, n)
    /\ \E i \in 1..Len(SplitComma(m)) : ToInt(SplitComma(m)[i]) = k

InvalidIn(state, m) ==
    IF state = "AWAITING_TRIMESTER" THEN ~IsIntText(m) \/ ToInt(m) \notin 1..3
    ELSE IF state = "AWAITING_DIETARY_PREFERENCES" THEN BadSelection(m, 6)
    ELSE IF state = "AWAITING_PREGNANCY_CONDITIONS" THEN BadSelection(m, 6)
    ELSE IF state = "AWAITING_USAGE_PREFERENCES" THEN Strip(m) # <<"5">> /\ BadSelection(m, 5)
    ELSE FALSE

RePrompts ==
    {<<"Please enter a valid number for your trimester.">>,
     <<"Please enter a valid trimester (1, 2, or 3).">>,
     <<"Please enter valid numbers for your dietary preferences.">>,
     <<"Please enter valid numbers for your pregnancy conditions.">>,
     <<"Please enter valid numbers for your usage preferences.">>,
     <<"Please enter valid numbers between 1 and {len}.">>}

\* C1: in AWAITING_TRIMESTER, AWAITING_DIETARY_PREFERENCES,
\* AWAITING_PREGNANCY_CONDITIONS and AWAITING_USAGE_PREFERENCES a message that is
\* no global command and whose selection is non-numeric or out of range leaves
\* the whole user row (state and every profile field) as it was, and the reply
\* is one of the re-prompts.
C1_InvalidSelectionReprompts ==
    [][\A p \in Phones, m \in AllTexts :
          (/\ Handled(p, m)
           /\ m \notin CommandWords
           /\ InvalidIn(StateBefore(p), m))
          => /\ users'[p] = users[p]
             /\ last'.exc = ""
             /\ last'.reply \in RePrompts]_vars

\* an out-of-range usage selection has just been re-prompted
C1_Witness ==
    \E p \in DOMAIN users :
        /\ last.from_number = p
        /\ last.message_body = <<"6">>
        /\ last.reply = <<"Please enter valid numbers between 1 and {len}.">>
        /\ users[p].conversation_state = "AWAITING_USAGE_PREFERENCES"
        /\ users[p].trimester = 3

\* C2: in AWAITING_OTHER_DIETARY any message that is no global command is stored
\* as the other-dietary note and the state becomes AWAITING_ALLERGIES; in
\* AWAITING_OTHER_CONDITIONS it is stored as the other-condition note and the
\* state becomes AWAITING_USAGE_PREFERENCES.
C2_OtherNoteStored ==
    [][\A p \in Phones, m \in AllTexts :
          (Handled(p, m) /\ m \notin CommandWords)
          => /\ StateBefore(p) = "AWAITING_OTHER_DIETARY"
                => /\ HasAttr(users'[p], "other_dietary_preferences")
                   /\ users'[p].other_dietary_preferences \in {m, Strip(m)}
                   /\ users'[p].conversation_state = "AWAITING_ALLERGIES"
             /\ StateBefore(p) = "AWAITING_OTHER_CONDITIONS"
                => /\ HasAttr(users'[p], "other_conditions")
                   /\ users'[p].other_conditions \in {m, Strip(m)}
                   /\ users'[p].conversation_state = "AWAITING_USAGE_PREFERENCES"]_vars

\* a free text sent in AWAITING_OTHER_DIETARY ended in _handle_nutrition_question
C2_Witness ==
    \E p \in DOMAIN users :
        /\ last.from_number = p
        /\ last.message_body = <<" ","n","u","t","s"," ">>
        /\ last.handler = "_handle_nutrition_question"
        /\ users[p].conversation_state = "AWAITING_OTHER_DIETARY"

\* C3 as stated: every stored user's conversation_state is one of the thirteen
\* defined states.
C3_StateIsDefined ==
    \A p \in DOMAIN users : users[p].conversation_state \in ConversationStates

\* C3: every stored user's conversation_state is one of the thirteen defined
\* states, or it is the field default 'START' of a row that is still exactly as
\* get_or_create made it (no command has moved the user yet).
C3_StateIsDefinedOrDefault ==
    \A p \in DOMAIN users :
        \/ users[p].conversation_state \in ConversationStates
        \/ users[p].conversation_state = "START" /\ users[p] = NewUser

\* a new phone number asked for the menu and its row is stored with 'START'
C3_Witness ==
    \E p \in DOMAIN users :
        /\ last.from_number = p
        /\ last.handler = "_show_menu"
        /\ users[p].conversation_state = "START"

\* C4: a valid dietary selection that contains the index of "Other" always moves
\* the user to AWAITING_OTHER_DIETARY, and a valid condition selection that
\* contains it to AWAITING_OTHER_CONDITIONS, whatever else is selected and in
\* whatever order.
C4_OtherAlwaysAsksForText ==
    [][\A p \in Phones, m \in AllTexts :
          (Handled(p, m) /\ m \notin CommandWords /\ SelectsAmongValid(m, 6, 6))
          => /\ StateBefore(p) = "AWAITING_DIETARY_PREFERENCES"
                => users'[p].conversation_state = "AWAITING_OTHER_DIETARY"
             /\ StateBefore(p) = "AWAITING_PREGNANCY_CONDITIONS"
                => users'[p].conversation_state = "AWAITING_OTHER_CONDITIONS"]_vars

\* "Other" was selected first and another preference after it
C4_Witness ==
    \E p \in DOMAIN users :
        /\ last.from_number = p
        /\ last.message_body = <<"6",",","1">>
        /\ last.handler = "_handle_dietary_preferences_response"
        /\ users[p].conversation_state = "AWAITING_OTHER_DIETARY"
        /\ users[p].dietary_preferences = {"Vegetarian"}

\* a user row all of whose profile fields, the two notes included, read as empty
ProfileIsEmpty(user) ==
    /\ user.trimester = NoTrimester
    /\ user.dietary_preferences = {}
    /\ user.allergies = <<>>
    /\ user.cultural_preferences = <<>>
    /\ user.pregnancy_conditions = {}
    /\ ~user.wants_meal_plans /\ ~user.wants_nutrition_tips
    /\ ~user.wants_recipe_suggestions /\ ~user.wants_nutrition_qa
    /\ HasAttr(user, "other_dietary_preferences") /\ user.other_dietary_preferences = <<>>
    /\ HasAttr(user, "other_conditions") /\ user.other_conditions = <<>>

\* C5: after a user in CONFIRM_RESET answers "yes", every profile field reads as
\* its default or empty value, the other-dietary and other-condition notes
\* included, and the conversation is back at the start of onboarding.
C5_ResetClearsProfile ==
    [][\A p \in Phones :
          (Handled(p, <<"y","e","s">>) /\ StateBefore(p) = "CONFIRM_RESET")
          => /\ ProfileIsEmpty(users'[p])
             /\ users'[p].conversation_state \in {"ONBOARDING_START", "AWAITING_TRIMESTER"}]_vars

\* "yes" was answered in CONFIRM_RESET and the row is back at the model's defaults
C5_Witness ==
    \E p \in DOMAIN users :
        /\ last.from_number = p
        /\ last.message_body = <<"y","e","s">>
        /\ last.handler = "_handle_reset_confirmation"
        /\ users[p] = [NewUser EXCEPT !.conversation_state = "AWAITING_TRIMESTER"]

\* the reply holds these parts in this order
HasParts(reply, parts) ==
    \E i \in 0..(Len(reply) - Len(parts)) :
        \A j \in 1..Len(parts) : reply[i + j] = parts[j]

\* C6: "start", "hi" or "hello" in any letter case, in any state and also from a
\* phone number not seen before, leaves the user stored in AWAITING_TRIMESTER and
\* the reply holds the trimester question with "1. First", "2. Second", "3. Third".
C6_StartAsksTrimester ==
    [][\A p \in Phones, m \in StartTexts :
          Handled(p, m)
          => /\ p \in DOMAIN users'
             /\ users'[p].conversation_state = "AWAITING_TRIMESTER"
             /\ last'.exc = ""
             /\ HasParts(last'.reply,
                         <<"Which trimester are you in?", "1. First", "2. Second", "3. Third">>)]_vars

\* an upper-case START has restarted a user who had finished onboarding steps
C6_Witness ==
    \E p \in DOMAIN users :
        /\ last.from_number = p
        /\ last.message_body = <<"S","T","A","R","T">>
        /\ users[p].conversation_state = "AWAITING_TRIMESTER"
        /\ users[p].trimester = 3

\* texts that are "meal plan" or "generate meal plan", or contain a fuzzy keyword
PlanRequestTexts ==
    {<<"m","e","a","l"," ","p","l","a","n">>,
     <<"G","e","n","e","r","a","t","e"," ","M","e","a","l"," ","P","l","a","n">>,
     <<"m","e","a","l","s">>,
     <<"m","y"," ","w","e","e","k","l","y"," ","p","l","a","n">>,
     <<"m","e","n","u">>}

\* C7: a message equal to "meal plan" or "generate meal plan", or containing one
\* of the fuzzy keywords, triggers meal-plan generation whatever the sender's state.
C7_PlanRequestGenerates ==
    [][\A p \in Phones, m \in PlanRequestTexts :
          Handled(p, m) => last'.handler = "_generate_meal_plan"]_vars

\* "meals" was typed at the trimester question and was taken as a trimester answer
C7_Witness ==
    \E p \in DOMAIN users :
        /\ last.from_number = p
        /\ last.message_body = <<"m","e","a","l","s">>
        /\ last.op = "process_message_async"
        /\ last.handler = "_handle_trimester_response"
        /\ users[p].conversation_state = "AWAITING_TRIMESTER"

----------------------------------------------------------------------------
(* Meal-plan generation on its own: _generate_meal_plan called on a User    *)
(* instance that carries other_dietary_preferences and other_conditions, so *)
(* that the user_profile dict is built and the retry loop runs.  Callers    *)
(* are the background thread (is_scheduled = FALSE) and                     *)
(* send_scheduled_meal_plan (is_scheduled = TRUE); up to MaxThreads calls   *)
(* for the same user run concurrently.                                      *)

\* a plan stored by an earlier generation
OldPlan == [days |-> <<Tuesday>>]

\* users that finished onboarding, with and without a trimester
GenUsers ==
    {[NewUser EXCEPT !.conversation_state = "COMPLETED_ONBOARDING",
                     !.trimester = tr,
                     !.wants_meal_plans = TRUE] : tr \in {NoTrimester, 1}}

InitGen ==
    /\ \E row \in GenUsers :
         /\ users = [p \in Phones |-> row]
         /\ mealPlans \in {<<>>} \cup
                {<<[user |-> p, week_number |-> w, meal_plan_data |-> OldPlan]>> :
                     p \in Phones, w \in WeekChoices(row.trimester)}
    /\ convLog = <<>>
    /\ last = NoRequest
    /\ sent = <<>>
    /\ gen = [t \in Threads |-> IdleThread]

\* _generate_meal_plan(user, is_scheduled) is called in thread t: the instance is
\* the row as loaded by the caller, the week number is drawn, the loop is entered
GenCall(t, from_number, is_scheduled) ==
    LET instance == WithNotes(users[from_number], <<>>, <<>>)
        res == _generate_meal_plan(instance, is_scheduled)
    IN  /\ gen[t].pc = "idle"
        /\ res.generate
        /\ \E w \in WeekChoices(instance.trimester) :
               gen' = GenEnter(t, from_number, instance, is_scheduled, w)
        /\ sent' = Pushes(from_number, res.pushed)
        /\ UNCHANGED <<users, mealPlans, convLog, last>>

Call == \E t \in Threads, p \in Phones, is_scheduled \in BOOLEAN : GenCall(t, p, is_scheduled)
Attempt == \E t \in Threads, outcome \in SonarPlanOutcomes : GenAttempt(t, outcome)
Delete == \E t \in Threads : GenDelete(t)
Create == \E t \in Threads : GenCreate(t)
SaveState == \E t \in Threads : GenSaveUser(t)
Send == \E t \in Threads : GenSend(t)
ScheduledSend == \E t \in Threads : GenScheduledSend(t)

\* every step thread t can take once called
GenStep(t) ==
    \/ \E outcome \in SonarPlanOutcomes : GenAttempt(t, outcome)
    \/ GenDelete(t) \/ GenCreate(t) \/ GenSaveUser(t) \/ GenSend(t) \/ GenScheduledSend(t)

NextGen == Call \/ Attempt \/ Delete \/ Create \/ SaveState \/ Send \/ ScheduledSend

\* a called thread keeps running: the method has no blocking wait besides the sleep
SpecGen == InitGen /\ [][NextGen]_vars /\ \A t \in Threads : WF_vars(GenStep(t))

----------------------------------------------------------------------------
(* Properties of meal-plan generation (specification SpecGen) *)

Running(t) == gen[t].pc \notin {"idle", "done"}
Finished(t) == gen[t].pc = "done"

\* thread t has just made its third call and that call failed too
LastAttemptFailed(t) ==
    /\ gen[t].pc = "attempt"
    /\ gen[t].attempt = 2
    /\ gen'[t].calls = 3
    /\ gen'[t].meal_plan_data.days = <<>>

\* C8: when every one of the 3 attempts fails the user gets the fixed apology
\* (pushed by the method, or returned to send_scheduled_meal_plan, which pushes
\* it), and neither during the attempts nor at the end does the request create,
\* delete or overwrite a MealPlan or write the user's conversation_state.
C8_AllAttemptsFailApology ==
    [][\A t \in Threads :
          /\ (gen[t].pc = "attempt" /\ gen'[t] # gen[t])
             => mealPlans' = mealPlans /\ users' = users
          /\ LastAttemptFailed(t)
             => /\ gen'[t].response = [text |->
                       "Sorry, I couldn't generate your meal plan right now. Please try again later."]
                /\ IF gen[t].is_scheduled
                   THEN gen'[t].pc = "returned"
                   ELSE /\ gen'[t].pc = "done"
                        /\ sent' = <<[to |-> gen[t].phone, body |-> [text |->
                               "Sorry, I couldn't generate your meal plan right now. Please try again later."]]>>
          /\ (gen[t].pc = "returned" /\ gen'[t] # gen[t])
             => /\ sent' = <<[to |-> gen[t].phone, body |-> gen[t].response]>>
                /\ mealPlans' = mealPlans /\ users' = users]_vars

\* three attempts failed while a plan of that week is stored: the plan is still
\* there and the user is still in COMPLETED_ONBOARDING
C8_Witness ==
    \E t \in Threads :
        /\ Finished(t)
        /\ gen[t].calls = 3
        /\ gen[t].response = ApologyResponse
        /\ \E i \in 1..Len(mealPlans) :
               /\ mealPlans[i].week_number = gen[t].week_number
               /\ mealPlans[i].meal_plan_data = OldPlan
        /\ users[gen[t].phone].conversation_state = "COMPLETED_ONBOARDING"

\* what holds of a called thread at every moment: at most 3 calls, one delay of
\* the same length after each failed attempt that is followed by another, and a
\* finished thread holds the summary of its validated plan or the apology
RetryLoopBounded(t) ==
    LET g == gen[t] IN
    g.pc # "idle" =>
        /\ g.calls <= 3
        /\ g.calls \in {g.attempt, g.attempt + 1}
        /\ Len(g.delays) = g.attempt
        /\ \A i \in 1..Len(g.delays) : g.delays[i] = 2
        /\ g.pc \in {"delete", "create", "save_user", "send"}
           => g.calls = g.attempt + 1 /\ g.meal_plan_data.days # <<>>
        /\ g.pc = "done"
           => \/ g.response = ApologyResponse /\ g.calls = 3
              \/ /\ g.meal_plan_data.days # <<>>
                 /\ g.response = Summary(g.is_scheduled, g.week_number, g.meal_plan_data)

RowsOf(plans, phone, week_number) ==
    {i \in 1..Len(plans) : plans[i].user = phone /\ plans[i].week_number = week_number}

\* C10: at every moment there is at most one stored MealPlan per (user,
\* week_number), also while two generations for the same user and week run
\* concurrently; and once a generation has passed its insert, the one row of
\* its week is a newly generated plan, not the plan stored before.
C10_OnePlanPerUserWeek ==
    /\ [](\A i, j \in 1..Len(mealPlans) :
             (mealPlans[i].user = mealPlans[j].user
              /\ mealPlans[i].week_number = mealPlans[j].week_number) => i = j)
    /\ [][\A t \in Threads :
             (gen[t].pc = "create" /\ gen'[t].pc = "save_user")
             => \E i \in 1..Len(mealPlans') :
                    /\ RowsOf(mealPlans', gen[t].phone, gen[t].week_number) = {i}
                    /\ mealPlans'[i].meal_plan_data # OldPlan]_vars

\* two generations of the same week interleave: one has inserted its plan, the
\* other has already run its delete and is about to insert
C10_Witness ==
    \E t, u \in Threads :
        /\ t # u
        /\ gen[t].pc = "save_user" /\ gen[u].pc = "create"
        /\ gen[t].phone = gen[u].phone /\ gen[t].week_number = gen[u].week_number
        /\ gen[t].is_scheduled /\ ~gen[u].is_scheduled
        /\ RowsOf(mealPlans, gen[t].phone, gen[t].week_number) # {}

----------------------------------------------------------------------------
(* One meal-plan generation at a time, for users of every trimester and     *)
(* with completions that mix valid and invalid day entries (specification   *)
(* SpecPlan).  As in SpecGen the instance carries the two note attributes.  *)

PlanUsers ==
    {[NewUser EXCEPT !.conversation_state = "COMPLETED_ONBOARDING",
                     !.trimester = tr,
                     !.wants_meal_plans = TRUE] : tr \in {NoTrimester, 1, 2, 3}}

\* completions with two kinds of valid day among the invalid ones
PlanDaysLists == UNION {[1..n -> DayItems \cup {Tuesday}] : n \in 1..MaxDays}
PlanOutcomes ==
    {[kind |-> "raise"], [kind |-> "error"]} \cup {[kind |-> "days", days |-> d] : d \in PlanDaysLists}

InitPlan ==
    /\ \E row \in PlanUsers :
         /\ users = [p \in Phones |-> row]
         /\ mealPlans \in {<<>>} \cup
                {<<[user |-> p, week_number |-> w, meal_plan_data |-> OldPlan]>> :
                     p \in Phones, w \in WeekChoices(row.trimester)}
    /\ convLog = <<>>
    /\ last = NoRequest
    /\ sent = <<>>
    /\ gen = [t \in Threads |-> IdleThread]

\* the steps of the one call, taken by the first thread
NextPlan ==
    \/ \E p \in Phones, is_scheduled \in BOOLEAN : GenCall(1, p, is_scheduled)
    \/ \E outcome \in PlanOutcomes : GenAttempt(1, outcome)
    \/ GenDelete(1)
    \/ GenCreate(1)
    \/ GenSaveUser(1)
    \/ GenSend(1)
    \/ GenScheduledSend(1)

SpecPlan == InitPlan /\ [][NextPlan]_vars

\* C11: the week_number stored with a generated MealPlan lies in the band of
\* the trimester the owning user had when generation was called: trimester 1
\* gives 1..12, trimester 2 gives 13..26, trimester 3 gives 27..40; and every
\* stored week_number is within 1..40.
C11_WeekInTrimesterBand ==
    /\ [](\A i \in 1..Len(mealPlans) : mealPlans[i].week_number \in 1..40)
    /\ [][\A t \in Threads :
             (gen[t].pc = "create" /\ gen'[t].pc = "save_user")
             => \E i \in 1..Len(mealPlans') :
                    /\ mealPlans'[i].user = gen[t].phone
                    /\ mealPlans'[i].meal_plan_data = gen[t].meal_plan_data
                    /\ gen[t].user.trimester = 1 => mealPlans'[i].week_number \in 1..12
                    /\ gen[t].user.trimester = 2 => mealPlans'[i].week_number \in 13..26
                    /\ gen[t].user.trimester = 3 => mealPlans'[i].week_number \in 27..40]_vars

\* a plan of week 26, the last week of its band, is stored for a user in trimester 2
C11_Witness ==
    \E t \in Threads, i \in 1..Len(mealPlans) :
        /\ gen[t].pc = "done"
        /\ gen[t].user.trimester = 2
        /\ mealPlans[i].week_number = 26
        /\ mealPlans[i].meal_plan_data = gen[t].meal_plan_data

\* a day entry is a record with a day name and a non-empty mapping of meal slots
WellFormedDay(d) ==
    /\ d.t = "dict"
    /\ "day" \in DOMAIN d.v
    /\ "meals" \in DOMAIN d.v
    /\ d.v.meals.t = "dict"
    /\ DOMAIN d.v.meals.v # {}

WellFormedPlan(data) ==
    /\ data.days # <<>>
    /\ \A k \in 1..Len(data.days) : WellFormedDay(data.days[k])

\* C12: every MealPlan persisted by generation holds at least one day and only
\* days that are records with a day name and a non-empty meal-slot mapping;
\* entries that are no records, lack "day" or "meals", or whose meals are empty
\* or no mapping never get past the loop, and an attempt that leaves no valid
\* day does not leave the loop with a plan.
C12_StoredPlanWellFormed ==
    /\ \A i \in 1..Len(mealPlans) : WellFormedPlan(mealPlans[i].meal_plan_data)
    /\ \A t \in Threads :
           gen[t].pc \in {"delete", "create", "save_user", "send"}
           => WellFormedPlan(gen[t].meal_plan_data)

\* a one-day plan was stored on the second attempt
C12_Witness ==
    \E t \in Threads, i \in 1..Len(mealPlans) :
        /\ gen[t].pc = "done"
        /\ gen[t].calls = 2
        /\ mealPlans[i].meal_plan_data = gen[t].meal_plan_data
        /\ mealPlans[i].meal_plan_data.days = <<Monday>>

----------------------------------------------------------------------------
(* The conversation of a user who has a stored plan and was asked which day *)
(* to show (specification SpecDay).  The handlers run on the instance as    *)
(* loaded from the table and on one that carries the two note attributes.   *)

\* the stored plans: one plan of two days, or an older plan and a newer one of one day
StoredPlans ==
    {<<[user |-> p, week_number |-> 1, meal_plan_data |-> [days |-> <<Monday, Tuesday>>]]>> :
         p \in Phones}
    \cup
    {<<[user |-> p, week_number |-> 1, meal_plan_data |-> OldPlan],
       [user |-> p, week_number |-> 2, meal_plan_data |-> [days |-> <<Monday>>]]>> :
         p \in Phones}

InitDay ==
    /\ users = [p \in Phones |->
                  [NewUser EXCEPT !.conversation_state = "AWAITING_MEAL_PLAN_DAY",
                                  !.trimester = 1,
                                  !.wants_meal_plans = TRUE]]
    /\ mealPlans \in StoredPlans
    /\ convLog = <<>>
    /\ last = NoRequest
    /\ sent = <<>>
    /\ gen = [t \in Threads |-> IdleThread]

\* the commands this sender uses: no new plan is asked for
SessionCommands ==
    {<<"h","i">>, <<"e","n","d">>, <<"m","e","n","u">>,
     <<"s","e","t","t","i","n","g","s">>,
     <<"U","p","d","a","t","e"," ","P","r","e","f","e","r","e","n","c","e","s">>}

\* the sender types a day when asked for one, an answer when asked to share,
\* and free text otherwise
DayInbound(state) ==
    SessionCommands \cup
        (IF state = "AWAITING_MEAL_PLAN_DAY" THEN DayTexts
         ELSE IF state = "AWAITING_SHARE_CONFIRMATION" THEN AnswerTexts
         ELSE FreeTexts)

Loaded(from_number, with_notes) ==
    IF with_notes THEN WithNotes(get_or_create(from_number), <<>>, <<>>)
    ELSE get_or_create(from_number)

NextDay ==
    \/ \E p \in Phones, with_notes \in BOOLEAN : \E m \in DayInbound(StateOf(p)) :
           webhookOn(p, Loaded(p, with_notes), m)
    \/ \E p \in Phones, with_notes \in BOOLEAN : \E m \in DayInbound(StateOf(p)) :
           process_message_asyncOn(p, Loaded(p, with_notes), m)

SpecDay == InitDay /\ [][NextDay]_vars

----------------------------------------------------------------------------
(* Properties of the day selection (specification SpecDay) *)

\* the day names of the latest plan stored for phone p, as stored
LatestDayNames(p) ==
    LET mine == SelectSeq(mealPlans, LAMBDA row : row.user = p)
        days == mine[Len(mine)].meal_plan_data.days
    IN  IF mine = <<>> THEN <<>> ELSE [i \in 1..Len(days) |-> days[i].v.day]

\* folding the letters the day names and the typed texts use
Folded(s) ==
    [i \in 1..Len(s) |->
        IF s[i] = "M" THEN "m" ELSE IF s[i] = "T" THEN "t" ELSE IF s[i] = "U" THEN "u"
        ELSE IF s[i] = "E" THEN "e" ELSE s[i]]

\* the typed text, surrounding blanks aside, is the name or a beginning of it
NameOrPrefix(m, name) ==
    LET t == Folded(SelectSeq(m, LAMBDA c : c # " ")) IN
    Len(t) <= Len(name) /\ \A i \in 1..Len(t) : Folded(name)[i] = t[i]

\* the step just taken showed the day called name to phone p
Rendered(p, name) ==
    /\ last'.status = 200
    /\ Len(last'.reply) = 4
    /\ last'.reply[1] = Joined(name)
    /\ last'.reply[4] = ShareQuestion
    /\ users'[p].conversation_state = "AWAITING_SHARE_CONFIRMATION"

AskedForDay(p, m) ==
    /\ Handled(p, m)
    /\ StateBefore(p) = "AWAITING_MEAL_PLAN_DAY"
    /\ m \notin CommandWords

MatchesNoDay(m, names) ==
    LET t == Folded(SelectSeq(m, LAMBDA c : c # " "))
        head == IF Len(t) <= 3 THEN t ELSE SubSeq(t, 1, 3)
        within(name) ==
            \E k \in 0..(Len(name) - Len(t)) :
                \A i \in 1..Len(t) : Folded(name)[k + i] = t[i]
        begins(name) ==
            Len(head) <= Len(name) /\ \A i \in 1..Len(head) : Folded(name)[i] = head[i]
    IN  \A j \in 1..Len(names) : ~within(names[j]) /\ ~begins(names[j])

----------------------------------------------------------------------------
(* The text _handle_meal_plan_day_selection builds for the selected day.    *)
(* Slot keys are texts; dish names, descriptions, benefits and the tip are  *)
(* held by their lengths, which is all the layout reads of them.            *)

\* str.title(): a letter is upper-cased at the start and after a non-letter
Title(s) ==
    LET UpperChar(c) ==
            IF \E i \in 1..26 : LowerLetters[i] = c
            THEN UpperLetters[CHOOSE i \in 1..26 : LowerLetters[i] = c]
            ELSE c
        IsLetter(c) == \E i \in 1..26 : LowerLetters[i] = c \/ UpperLetters[i] = c
    IN  [i \in 1..Len(s) |->
            IF i = 1 \/ ~IsLetter(s[i - 1]) THEN UpperChar(s[i]) ELSE LowerChar(s[i])]

\* an order that puts lunch before the first snack
meal_order_LunchFirst ==
    <<<<"B","r","e","a","k","f","a","s","t">>,
      <<"L","u","n","c","h">>,
      <<"S","n","a","c","k"," ","1">>,
      <<"S","n","a","c","k"," ","2">>,
      <<"D","i","n","n","e","r">>>>

meal_order ==
    <<<<"B","r","e","a","k","f","a","s","t">>,
      <<"S","n","a","c","k"," ","1">>,
      <<"L","u","n","c","h">>,
      <<"S","n","a","c","k"," ","2">>,
      <<"D","i","n","n","e","r">>>>

InMealOrder(meal_type) == \E i \in 1..Len(meal_order) : meal_order[i] = meal_type

\* meal_type_mapping.get(meal_key.lower().strip(), meal_key.title()): the mapping
\* has the five slots of meal_order, keyed by their lower-cased names
mapped_key(meal_key) ==
    LET normalized_key == Strip(Lower(meal_key))
        known == {i \in 1..Len(meal_order) : Lower(meal_order[i]) = normalized_key}
    IN  IF known # {} THEN meal_order[CHOOSE i \in known : TRUE] ELSE Title(meal_key)

\* the meals dict: a repeated mapped key keeps its place and takes the later value
RECURSIVE Organize(_, _)
Organize(items, meals) ==
    IF items = <<>> THEN meals
    ELSE LET label == mapped_key(Head(items).key)
             at == {i \in 1..Len(meals) : meals[i].meal_type = label}
         IN  Organize(Tail(items),
                      IF at = {}
                      THEN Append(meals, [meal_type |-> label, details |-> Head(items).details])
                      ELSE [i \in 1..Len(meals) |->
                               IF i \in at THEN [meals[i] EXCEPT !.details = Head(items).details]
                               ELSE meals[i]])

\* details.get(field, default), as a length
FieldLen(details, field, default) ==
    IF field \in DOMAIN details THEN details[field] ELSE default

\* length of 'Not specified'
NotSpecifiedLength == 13
\* descriptions longer than this are cut to 77 characters and "..."
DescriptionLimit == 80
\* benefits are shown when shorter than this
BenefitsLimit == 60
\* the length above which the text is rebuilt with names only
LengthBudget == 1500
\* length of the footer, its two newlines included
FooterLength == 78

\* "\n   " and the description, cut when long; nothing for an empty description
DescriptionPart(details) ==
    LET description == FieldLen(details, "description", 0) IN
    IF description = 0 THEN 0
    ELSE 4 + (IF description > DescriptionLimit THEN 77 + 3 ELSE description)

\* "\n   ✨ " and the benefits
BenefitsPart(details) ==
    LET nutritional_benefits == FieldLen(details, "nutritional_benefits", 0) IN
    IF nutritional_benefits # 0 /\ nutritional_benefits < BenefitsLimit
    THEN 6 + nutritional_benefits ELSE 0

\* f"{emoji} {meal_type}: {name}" for a slot of meal_order (a one-character emoji)
\* and for another slot (the two-character default emoji)
NameLine(meal) ==
    (IF InMealOrder(meal.meal_type) THEN 1 ELSE 2) + 1 + Len(meal.meal_type) + 2
        + FieldLen(meal.details, "name", NotSpecifiedLength)

\* the meal texts of the first layout: the slots of meal_order first, each with
\* description and benefits, then the remaining slots with description only
MealParts(meals) ==
    LET ordered == [i \in 1..Len(meal_order) |->
                       SelectSeq(meals, LAMBDA m : m.meal_type = meal_order[i])]
        first == ordered[1] \o ordered[2] \o ordered[3] \o ordered[4] \o ordered[5]
        rest == SelectSeq(meals, LAMBDA m : ~InMealOrder(m.meal_type))
    IN  [i \in 1..Len(first) |->
            [meal_type |-> first[i].meal_type,
             length |-> NameLine(first[i]) + DescriptionPart(first[i].details)
                            + BenefitsPart(first[i].details)]]
        \o
        [i \in 1..Len(rest) |->
            [meal_type |-> rest[i].meal_type,
             length |-> NameLine(rest[i]) + DescriptionPart(rest[i].details)]]

\* the meal texts of the second layout: names only, slots of meal_order only
NameOnlyParts(meals) ==
    LET ordered == [i \in 1..Len(meal_order) |->
                       SelectSeq(meals, LAMBDA m : m.meal_type = meal_order[i])]
        first == ordered[1] \o ordered[2] \o ordered[3] \o ordered[4] \o ordered[5]
    IN  [i \in 1..Len(first) |->
            [meal_type |-> first[i].meal_type, length |-> NameLine(first[i])]]

RECURSIVE SumLengths(_)
SumLengths(parts) ==
    IF parts = <<>> THEN 0 ELSE Head(parts).length + SumLengths(Tail(parts))

\* len("\n\n".join(message_parts) + footer): the header, the meal texts, the tip
MessageLength(display_day_name, parts, tip_content) ==
    (3 + Len(display_day_name)) + SumLengths(parts) + (7 + tip_content)
        + 2 * (Len(parts) + 1) + FooterLength

\* the returned text: the slots it lists, its length, which layout it is
RenderDay(display_day_name, meals_data, tip_content) ==
    LET meals == Organize(meals_data, <<>>)
        full == MealParts(meals)
        short == NameOnlyParts(meals)
    IN  IF MessageLength(display_day_name, full, tip_content) > LengthBudget
        THEN [slots |-> [i \in 1..Len(short) |-> short[i].meal_type],
              length |-> MessageLength(display_day_name, short, tip_content),
              names_only |-> TRUE]
        ELSE [slots |-> [i \in 1..Len(full) |-> full[i].meal_type],
              length |-> MessageLength(display_day_name, full, tip_content),
              names_only |-> FALSE]

----------------------------------------------------------------------------
(* Rendering the days of stored plans (specification SpecRender) *)

\* a dish name longer than any the prompt asks for
LongName == 500
\* a description far beyond the cut
LongText == 2000
\* most slots of a day
MaxSlots == 3

MealSamples ==
    {[key |-> <<"b","r","e","a","k","f","a","s","t">>,
      details |-> [name |-> 12, description |-> 81, nutritional_benefits |-> 59]],
     [key |-> <<" ","B","r","e","a","k","f","a","s","t">>,
      details |-> [name |-> LongName]],
     [key |-> <<"L","U","N","C","H">>,
      details |-> [name |-> LongName, description |-> LongText]],
     [key |-> <<"D","i","n","n","e","r">>,
      details |-> [description |-> 80, nutritional_benefits |-> 60]],
     [key |-> <<"s","n","a","c","k"," ","1">>,
      details |-> [name |-> LongName, description |-> 0]],
     [key |-> <<"S","n","a","c","k"," ","2">>,
      details |-> [name |-> 12]],
     [key |-> <<"b","r","u","n","c","h">>,
      details |-> [name |-> LongName, description |-> LongText]],
     [key |-> <<"l","a","t","e"," ","s","n","a","c","k">>,
      details |-> [name |-> 12, nutritional_benefits |-> 59]]}

\* the meals of a day: up to MaxSlots slots with different keys, in any order
MealLists ==
    {l \in UNION {[1..n -> MealSamples] : n \in 1..MaxSlots} :
        \A i, j \in 1..Len(l) : i # j => l[i].key # l[j].key}

\* the cleaned tip: the default text, or the longest _clean_tip_content returns
TipLengths == {64, 151}

InitRender ==
    /\ users = [p \in Phones |->
                  [NewUser EXCEPT !.conversation_state = "AWAITING_MEAL_PLAN_DAY",
                                  !.trimester = 1,
                                  !.wants_meal_plans = TRUE]]
    /\ \E p \in Phones, meals \in MealLists :
         mealPlans = <<[user |-> p, week_number |-> 1,
                        meal_plan_data |->
                            [days |-> <<[day |-> <<"M","o","n","d","a","y">>,
                                         meals |-> meals]>>]]>>
    /\ convLog = <<>>
    /\ last = NoRequest
    /\ sent = <<>>
    /\ gen = [t \in Threads |-> IdleThread]

\* the day of the stored plan is laid out with some tip
Render ==
    \E tip_content \in TipLengths :
        LET row == mealPlans[1]
            selected_day_data == row.meal_plan_data.days[1]
        IN  /\ last' = Request("render", row.user, selected_day_data.day,
                               "_handle_meal_plan_day_selection", 200, "",
                               RenderDay(selected_day_data.day, selected_day_data.meals,
                                         tip_content))
            /\ UNCHANGED <<users, mealPlans, convLog, sent, gen>>

SpecRender == InitRender /\ [][Render]_vars

----------------------------------------------------------------------------
(* Properties of the rendered day (specification SpecRender) *)

\* the meals of the stored day, as stored
StoredMeals == mealPlans[1].meal_plan_data.days[1].meals

Rank(slot) ==
    IF slot = <<"B","r","e","a","k","f","a","s","t">> THEN 1
    ELSE IF slot = <<"S","n","a","c","k"," ","1">> THEN 2
    ELSE IF slot = <<"L","u","n","c","h">> THEN 3
    ELSE IF slot = <<"S","n","a","c","k"," ","2">> THEN 4
    ELSE IF slot = <<"D","i","n","n","e","r">> THEN 5
    ELSE 6

\* the listed slot is the one the stored key names, letter case and blanks aside
SameSlot(slot, key) == Lower(slot) = Strip(Lower(key))

----------------------------------------------------------------------------
(* utils/sonar.py: from the completion text to the plan.  The text is held  *)
(* as its sequence of lexical pieces: JSON punctuation, JSON string         *)
(* literals, words of prose, code fences, think tags and line ends.         *)

Punct(c) == [k |-> "punct", v |-> c]
Str(text) == [k |-> "str", v |-> text]
Word(text) == [k |-> "word", v |-> text]
\* three backticks followed by json, and three backticks alone
FenceJson == [k |-> "fence", v |-> "json"]
Fence == [k |-> "fence", v |-> ""]
ThinkStart == [k |-> "tag", v |-> "<think>"]
ThinkEnd == [k |-> "tag", v |-> "</think>"]
NL == [k |-> "nl", v |-> "\n"]

\* parsed JSON values besides objects: strings and arrays
JStr(text) == [t |-> "str", v |-> text]
JList(items) == [t |-> "list", v |-> items]

\* a dict that keeps the first pair only
PairsToDict_FirstPairOnly(pairs) ==
    JDict([key \in {pairs[1][1]} |-> pairs[1][2]])

\* dict(pairs): a repeated key takes the later value
PairsToDict(pairs) ==
    JDict([key \in {pairs[i][1] : i \in 1..Len(pairs)} |->
              pairs[CHOOSE i \in 1..Len(pairs) :
                        /\ pairs[i][1] = key
                        /\ \A j \in (i + 1)..Len(pairs) : pairs[j][1] # key][2]])

\* position of the first piece at or after i that is no line end
RECURSIVE SkipSpace(_, _)
SkipSpace(content, i) ==
    IF i <= Len(content) /\ content[i] = NL THEN SkipSpace(content, i + 1) ELSE i

ParseFailed == [ok |-> FALSE]

\* the JSON decoder reading one value at position i: [ok, value, next]
RECURSIVE ParseValue(_, _)
RECURSIVE ParseMembers(_, _, _)
RECURSIVE ParseElements(_, _, _)
ParseValue(content, i) ==
    LET at == SkipSpace(content, i) IN
    IF at > Len(content) THEN ParseFailed
    ELSE IF content[at].k = "str"
    THEN [ok |-> TRUE, value |-> JStr(content[at].v), next |-> at + 1]
    ELSE IF content[at] = Punct("{")
    THEN LET in == SkipSpace(content, at + 1) IN
         IF in <= Len(content) /\ content[in] = Punct("}")
         THEN [ok |-> TRUE, value |-> JDict(<<>>), next |-> in + 1]
         ELSE ParseMembers(content, in, <<>>)
    ELSE IF content[at] = Punct("[")
    THEN LET in == SkipSpace(content, at + 1) IN
         IF in <= Len(content) /\ content[in] = Punct("]")
         THEN [ok |-> TRUE, value |-> JList(<<>>), next |-> in + 1]
         ELSE ParseElements(content, in, <<>>)
    ELSE ParseFailed

\* "key": value pairs up to the closing brace
ParseMembers(content, i, pairs) ==
    LET key == SkipSpace(content, i)
        colon == SkipSpace(content, key + 1)
    IN  IF colon > Len(content) \/ content[key].k # "str" \/ content[colon] # Punct(":")
        THEN ParseFailed
        ELSE LET item == ParseValue(content, colon + 1) IN
             IF ~item.ok THEN ParseFailed
             ELSE LET after == SkipSpace(content, item.next)
                      more == Append(pairs, <<content[key].v, item.value>>)
                  IN  IF after > Len(content) THEN ParseFailed
                      ELSE IF content[after] = Punct("}")
                      THEN [ok |-> TRUE, value |-> PairsToDict(more), next |-> after + 1]
                      ELSE IF content[after] = Punct(",")
                      THEN ParseMembers(content, after + 1, more)
                      ELSE ParseFailed

\* values up to the closing bracket
ParseElements(content, i, items) ==
    LET item == ParseValue(content, i) IN
    IF ~item.ok THEN ParseFailed
    ELSE LET after == SkipSpace(content, item.next)
             more == Append(items, item.value)
         IN  IF after > Len(content) THEN ParseFailed
             ELSE IF content[after] = Punct("]")
             THEN [ok |-> TRUE, value |-> JList(more), next |-> after + 1]
             ELSE IF content[after] = Punct(",")
             THEN ParseElements(content, after + 1, more)
             ELSE ParseFailed

\* json.loads(content): one value and nothing but line ends after it;
\* [ok |-> FALSE] stands for JSONDecodeError
json_loads(content) ==
    LET parsed == ParseValue(content, 1) IN
    IF parsed.ok /\ SkipSpace(content, parsed.next) > Len(content)
    THEN [ok |-> TRUE, value |-> parsed.value]
    ELSE ParseFailed

\* json.dumps(value, indent=...): the pieces of the text, with the given line
\* break (<<>> or <<NL>>) after every opening brace or bracket, comma and value
RECURSIVE Dump(_, _)
RECURSIVE DumpMembers(_, _, _)
RECURSIVE DumpElements(_, _)
Dump(value, break) ==
    IF value.t = "str" THEN <<Str(value.v)>>
    ELSE IF value.t = "list"
    THEN <<Punct("[")>> \o break \o DumpElements(value.v, break) \o <<Punct("]")>>
    ELSE <<Punct("{")>> \o break \o DumpMembers(value.v, SetToSeq(DOMAIN value.v), break)
             \o <<Punct("}")>>

DumpMembers(f, keys, break) ==
    IF keys = <<>> THEN <<>>
    ELSE <<Str(Head(keys)), Punct(":")>> \o Dump(f[Head(keys)], break)
             \o (IF Tail(keys) = <<>> THEN <<>> ELSE <<Punct(",")>>) \o break
             \o DumpMembers(f, Tail(keys), break)

\* an encoder that writes the first element of an array only
DumpElements_FirstOnly(items, break) ==
    IF items = <<>> THEN <<>> ELSE Dump(Head(items), break)

DumpElements(items, break) ==
    IF items = <<>> THEN <<>>
    ELSE Dump(Head(items), break)
             \o (IF Tail(items) = <<>> THEN <<>> ELSE <<Punct(",")>>) \o break
             \o DumpElements(Tail(items), break)

\* json.dumps(value)
json_dumps(value) == Dump(value, <<>>)

\* re.search(r'```json\s*(\{.*?\})\s*```', content, re.DOTALL).group(1): from the
\* first json fence that is followed by a brace and has a closing brace before a
\* fence, the shortest such stretch; <<>> when there is no match
FencedBlock(content) ==
    LET n == Len(content)
        closes(j) ==
            /\ content[j] = Punct("}")
            /\ LET b == SkipSpace(content, j + 1) IN b <= n /\ content[b].k = "fence"
        opens(i) ==
            /\ content[i] = FenceJson
            /\ LET a == SkipSpace(content, i + 1) IN
               a <= n /\ content[a] = Punct("{") /\ \E j \in (a + 1)..n : closes(j)
        starts == {i \in 1..n : opens(i)}
    IN  IF starts = {} THEN <<>>
        ELSE LET i == CHOOSE x \in starts : \A y \in starts : x <= y
                 a == SkipSpace(content, i + 1)
                 ends == {j \in (a + 1)..n : closes(j)}
             IN  SubSeq(content, a, CHOOSE x \in ends : \A y \in ends : x <= y)

\* Method 3 of extract_json_from_response, from position p on with the count at
\* zero and no start noted: the count of braces first returns to zero at a closing
\* brace j; the stretch from the first opening brace to j is tried, and only a
\* dict with a 'meal_plan' key is returned; otherwise the scan goes on after j
RECURSIVE BraceScan(_, _)
BraceScan(content, p) ==
    LET n == Len(content)
        opening == {i \in p..n : content[i] = Punct("{")}
        closing == {i \in p..n : content[i] = Punct("}")}
        brace_count(j) ==
            Cardinality({i \in opening : i <= j}) - Cardinality({i \in closing : i <= j})
        zero == {j \in closing : brace_count(j) = 0}
    IN  IF zero = {} THEN ParseFailed
        ELSE LET j == CHOOSE x \in zero : \A y \in zero : x <= y
                 start_pos == CHOOSE x \in opening : \A y \in opening : x <= y
                 parsed == json_loads(SubSeq(content, start_pos, j))
             IN  IF parsed.ok /\ IsDict(parsed.value) /\ JHas(parsed.value, "meal_plan")
                 THEN parsed
                 ELSE BraceScan(content, j + 1)

\* SonarAPI.extract_json_from_response; [ok |-> FALSE] stands for ValueError
extract_json_from_response(content) ==
    LET direct == json_loads(content)
        fenced == FencedBlock(content)
        think_end == {i \in 1..Len(content) : content[i] = ThinkEnd}
        remaining_content ==
            SubSeq(content, (CHOOSE i \in think_end : \A j \in think_end : i <= j) + 1,
                   Len(content))
        fenced_rest == FencedBlock(remaining_content)
    IN  IF direct.ok THEN direct
        ELSE IF fenced # <<>> /\ json_loads(fenced).ok THEN json_loads(fenced)
        ELSE IF think_end # {} /\ fenced_rest # <<>> /\ json_loads(fenced_rest).ok
        THEN json_loads(fenced_rest)
        ELSE IF think_end # {} /\ json_loads(remaining_content).ok
        THEN json_loads(remaining_content)
        ELSE BraceScan(content, 1)

day_names ==
    <<"Monday", "Tuesday", "Wednesday", "Thursday", "Friday", "Saturday", "Sunday">>

\* f"day_{i}"
day_key(i) == <<"day_1", "day_2", "day_3", "day_4", "day_5", "day_6", "day_7">>[i]

\* a conversion that numbers the days it finds from Monday on
days_array_Shifted(nested_data) ==
    LET present == SelectSeq([i \in 1..7 |-> i], LAMBDA i : JHas(nested_data, day_key(i)))
    IN  [n \in 1..Len(present) |->
            JDict([day |-> JStr(day_names[n]),
                   meals |-> JGet(nested_data, day_key(present[n]), JOther)])]

\* the days built from a 'meal_plan' object keyed by day_1 .. day_7
days_array(nested_data) ==
    LET present == SelectSeq([i \in 1..7 |-> i], LAMBDA i : JHas(nested_data, day_key(i)))
    IN  [n \in 1..Len(present) |->
            JDict([day |-> JStr(day_names[present[n]]),
                   meals |-> JGet(nested_data, day_key(present[n]), JOther)])]

ErrorResult(text) == JDict([error |-> JStr(text)])

\* the structure handling of generate_meal_plan once a dict has been extracted
NormalizeStructure(parsed) ==
    LET nested_data == JGet(parsed, "meal_plan", JOther)
        meal_plan_data ==
            IF ~JHas(parsed, "meal_plan") THEN parsed
            ELSE IF IsDict(nested_data)
            THEN IF days_array(nested_data) # <<>>
                 THEN JDict([days |-> JList(days_array(nested_data))])
                 ELSE parsed
            ELSE IF nested_data.t = "list" THEN JDict([days |-> nested_data])
            ELSE parsed
        days_data == JGet(meal_plan_data, "days", JOther)
    IN  IF ~JHas(meal_plan_data, "days")
        THEN ErrorResult("Invalid meal plan structure - missing days")
        ELSE IF days_data.t # "list" \/ days_data.v = <<>>
        THEN ErrorResult("Invalid meal plan structure - invalid days data")
        ELSE meal_plan_data

\* text.split('\n'), blank lines dropped
SplitLines(content) ==
    LET n == Len(content)
        cuts == {0, n + 1} \cup {i \in 1..n : content[i] = NL}
        cut(k) == CHOOSE c \in cuts : Cardinality({x \in cuts : x < c}) = k
        lines == [k \in 1..(Cardinality(cuts) - 1) |->
                     SubSeq(content, cut(k - 1) + 1, cut(k) - 1)]
    IN  SelectSeq(lines, LAMBDA line : line # <<>>)

meal_types == <<"Breakfast", "Lunch", "Snack 1", "Snack 2", "Dinner">>

\* word.lower() in line.lower(): a piece of the line is that word
InLine(line, word) == \E i \in 1..Len(line) : line[i].k \in {"str", "word"} /\ line[i].v = word

\* "snack" in line.lower()
SnackInLine(line) == InLine(line, "Snack") \/ InLine(line, "Snack 1") \/ InLine(line, "Snack 2")

\* line.split(":", 1)[1].strip(): what follows the first colon, held by its first piece
AfterColon(line) ==
    LET colons == {i \in 1..Len(line) : line[i] = Punct(":")} IN
    IF colons = {} THEN <<>>
    ELSE SubSeq(line, (CHOOSE i \in colons : \A j \in colons : i <= j) + 1, Len(line))

\* current_meals[meal] = value: a new key goes last, a known key keeps its place
SetMeal(current_meals, meal, value) ==
    IF \E i \in 1..Len(current_meals) : current_meals[i][1] = meal
    THEN [i \in 1..Len(current_meals) |->
             IF current_meals[i][1] = meal THEN <<meal, value>> ELSE current_meals[i]]
    ELSE Append(current_meals, <<meal, value>>)

\* one pass of the loop over the lines; st holds days, current_day ("" for None)
\* and current_meals
ParseLine(st, line) ==
    LET in_days == {i \in 1..7 : InLine(line, day_names[i])}
        matching == {i \in 1..5 : InLine(line, meal_types[i])
                                      \/ (meal_types[i] = "Snack 1" /\ SnackInLine(line))}
        content == AfterColon(line)
        closed == IF st.current_day # "" /\ st.current_meals # <<>>
                  THEN Append(st.days, JDict([day |-> JStr(st.current_day),
                                              meals |-> PairsToDict(st.current_meals)]))
                  ELSE st.days
    IN  IF in_days # {}
        THEN [days |-> closed,
              current_day |-> day_names[CHOOSE i \in in_days : \A j \in in_days : i <= j],
              current_meals |-> <<>>]
        ELSE IF matching # {}
        THEN IF content = <<>> THEN st
             ELSE [st EXCEPT !.current_meals =
                      SetMeal(st.current_meals,
                              meal_types[CHOOSE i \in matching : \A j \in matching : i <= j],
                              JDict([name |-> JStr(content[1].v),
                                     description |-> JStr(""),
                                     nutritional_benefits |-> JStr("")]))]
        ELSE IF st.current_day # "" /\ st.current_meals # <<>>
        THEN LET last_meal == st.current_meals[Len(st.current_meals)] IN
             [st EXCEPT !.current_meals =
                 SetMeal(st.current_meals, last_meal[1],
                         [last_meal[2] EXCEPT !.v.description = JStr("{lines}")])]
        ELSE st

RECURSIVE ParseLines(_, _)
ParseLines(st, lines) ==
    IF lines = <<>> THEN st ELSE ParseLines(ParseLine(st, Head(lines)), Tail(lines))

\* SonarAPI._format_text_response_to_json
_format_text_response_to_json(content) ==
    LET st == ParseLines([days |-> <<>>, current_day |-> "", current_meals |-> <<>>],
                         SplitLines(content))
    IN  JDict([days |->
                  JList(IF st.current_day # "" /\ st.current_meals # <<>>
                        THEN Append(st.days, JDict([day |-> JStr(st.current_day),
                                                    meals |-> PairsToDict(st.current_meals)]))
                        ELSE st.days)])

\* SonarAPI.generate_meal_plan from the completion text on: extraction, the
\* structure handling, and the text parser when extraction raises ValueError
generate_meal_plan(content) ==
    LET extracted == extract_json_from_response(content)
        fallback_result == _format_text_response_to_json(content)
    IN  IF extracted.ok /\ IsDict(extracted.value)
        THEN NormalizeStructure(extracted.value)
        ELSE IF fallback_result.v.days.v # <<>> THEN fallback_result
        ELSE ErrorResult("Failed to extract JSON")

----------------------------------------------------------------------------
(* Completions and what generate_meal_plan makes of them (specification     *)
(* SpecNorm)                                                                *)

SlotNames == {"Breakfast", "Snack 1", "Lunch", "Snack 2", "Dinner"}

\* the meals of a day: the five slots, or breakfast only; dish names carry a tag
FiveSlots(tag) == JDict([slot \in SlotNames |-> JDict([name |-> JStr(tag)])])
OneSlot(tag) == JDict([slot \in {"Breakfast"} |-> JDict([name |-> JStr(tag)])])

DayValue(i, meals) == JDict([day |-> JStr(day_names[i]), meals |-> meals])

\* the plan the prompt asks for: seven days of five slots
FullPlan(tag) == JDict([days |-> JList([i \in 1..7 |-> DayValue(i, FiveSlots(tag))])])

\* a plan under 'meal_plan', keyed by day_i for the indices in I
NestedPlan(I, meals) == JDict([meal_plan |-> JDict([key \in {day_key(i) : i \in I} |-> meals])])

DishTags == {"oats", "stew"}
NestedIndexSets == {{1, 2, 3}, {2, 5}, {7}, {}}

PlanValues ==
    {FullPlan(tag) : tag \in DishTags}
    \cup {NestedPlan(I, OneSlot("oats")) : I \in NestedIndexSets}
    \cup {JDict([days |-> JList(<<DayValue(3, OneSlot("oats"))>>)]),
          JDict([days |-> JList(<<DayValue(2, FiveSlots("oats")), DayValue(1, OneSlot("stew"))>>)]),
          JDict([days |-> JList(<<DayValue(1, OneSlot("oats"))>>),
                 meal_plan |-> JStr("weekly")]),
          JDict([meal_plan |-> JList(<<DayValue(1, OneSlot("oats"))>>)]),
          JDict([d \in {"Monday", "Tuesday"} |-> JDict([Breakfast |-> JStr("oats")])]),
          JDict([note |-> JStr("sorry")]),
          JDict([days |-> JList(<<>>)]),
          JDict([days |-> JStr("none")]),
          JList(<<DayValue(1, OneSlot("oats"))>>),
          JStr("hello")}

\* the ways a completion carries the JSON text of a value
Completions(value) ==
    LET json == json_dumps(value) IN
    {json,
     Dump(value, <<NL>>),
     <<Word("Here is your plan"), NL, FenceJson, NL>> \o json \o <<NL, Fence>>,
     <<ThinkStart, Word("the user is vegan"), ThinkEnd, NL>> \o json,
     <<ThinkStart, Word("draft"), FenceJson>> \o json \o <<Fence, ThinkEnd, NL, FenceJson, NL>>
         \o json \o <<NL, Fence, NL, Word("Enjoy")>>,
     <<Word("Here is your plan")>> \o json \o <<Word("Enjoy")>>,
     SubSeq(json, 1, Len(json) - 1)}

\* completions that are no JSON at all
PlainTexts ==
    {<<Word("Sorry")>>,
     <<Word("Monday"), NL, Word("Breakfast"), Punct(":"), Word("oats"), NL,
       Word("with berries"), NL, NL, Word("Tuesday"), NL,
       Word("Snack 2"), Punct(":"), Word("nuts"), NL, Word("Lunch"), Punct(":")>>,
     <<Word("Monday"), NL, Word("Snack 1"), Punct(":"), Word("apple"), NL,
       Word("Snack 2"), Punct(":"), Word("nuts")>>,
     <<Word("Breakfast"), Punct(":"), Word("oats")>>}

CompletionTexts == PlainTexts \cup UNION {Completions(value) : value \in PlanValues}

Completion(op, content, result) ==
    Request(op, "", content, "generate_meal_plan", 200, "", result)

InitNorm ==
    /\ users = [p \in {} |-> NewUser]
    /\ mealPlans = <<>>
    /\ convLog = <<>>
    /\ \E content \in CompletionTexts : last = Completion("completion", content, JOther)
    /\ sent = <<>>
    /\ gen = [t \in Threads |-> IdleThread]

\* the completion is turned into a plan or an error
Normalize ==
    /\ last.op = "completion"
    /\ last' = Completion("generate_meal_plan", last.message_body,
                          generate_meal_plan(last.message_body))
    /\ UNCHANGED <<users, mealPlans, convLog, sent, gen>>

\* a returned plan is written out as JSON and read again
Renormalize ==
    /\ last.op \in {"generate_meal_plan", "again"}
    /\ ~JHas(last.reply, "error")
    /\ last' = Completion("again", json_dumps(last.reply),
                          generate_meal_plan(json_dumps(last.reply)))
    /\ UNCHANGED <<users, mealPlans, convLog, sent, gen>>

NextNorm == Normalize \/ Renormalize

SpecNorm == InitNorm /\ [][NextNorm]_vars

----------------------------------------------------------------------------
(* Properties of the normalizer (specification SpecNorm) *)

\* the characters of a slot name or a weekday name
Chars(name) ==
    CASE name = "Breakfast" -> <<"B","r","e","a","k","f","a","s","t">>
      [] name = "Snack 1" -> <<"S","n","a","c","k"," ","1">>
      [] name = "Lunch" -> <<"L","u","n","c","h">>
      [] name = "Snack 2" -> <<"S","n","a","c","k"," ","2">>
      [] name = "Dinner" -> <<"D","i","n","n","e","r">>
      [] name = "Monday" -> <<"M","o","n","d","a","y">>
      [] name = "Tuesday" -> <<"T","u","e","s","d","a","y">>
      [] name = "Wednesday" -> <<"W","e","d","n","e","s","d","a","y">>
      [] name = "Thursday" -> <<"T","h","u","r","s","d","a","y">>
      [] name = "Friday" -> <<"F","r","i","d","a","y">>
      [] name = "Saturday" -> <<"S","a","t","u","r","d","a","y">>
      [] name = "Sunday" -> <<"S","u","n","d","a","y">>

\* the orders in which the keys of an object can stand in its text
KeyOrders(keys) ==
    {order \in [1..Cardinality(keys) -> keys] :
        \A i, j \in 1..Cardinality(keys) : i # j => order[i] # order[j]}

\* the slots the day renderer lists for a day of a returned plan whose meals
\* stand in the given order; dish names are four characters long
RenderedSlots(day_entry, order) ==
    RenderDay(Chars(day_entry.v.day.v),
              [i \in 1..Len(order) |-> [key |-> Chars(order[i]), details |-> [name |-> 4]]],
              64).slots

\* C17: when the completion text is the JSON text of a plan with the seven
\* days Monday to Sunday and the five meal slots on each day, the normalizer
\* returns that plan: seven day entries in the same order with the same meals;
\* and the day renderer lists the five slots of each returned day in the order
\* Breakfast, Snack 1, Lunch, Snack 2, Dinner, whatever their order in the text.
C17_SevenDaysRoundTrip ==
    \A tag \in {"oats", "stew"} :
        LET plan == JDict([days |-> JList([i \in 1..7 |->
                        JDict([day |-> JStr(day_names[i]),
                               meals |-> JDict([slot \in {"Breakfast", "Snack 1", "Lunch",
                                                          "Snack 2", "Dinner"} |->
                                                   JDict([name |-> JStr(tag)])])])])])
        IN  (/\ last.op = "generate_meal_plan"
             /\ last.message_body \in {Dump(plan, <<>>), Dump(plan, <<NL>>)})
            => /\ last.reply = plan
               /\ \A n \in 1..7 :
                      \A order \in KeyOrders(DOMAIN last.reply.v.days.v[n].v.meals.v) :
                          RenderedSlots(last.reply.v.days.v[n], order)
                              = <<Chars("Breakfast"), Chars("Snack 1"), Chars("Lunch"),
                                  Chars("Snack 2"), Chars("Dinner")>>

\* the seven-day plan of stews came back with Sunday as its seventh day, and
\* its Sunday written dinner first is listed breakfast first
C17_Witness ==
    /\ last.op = "generate_meal_plan"
    /\ last.message_body = Dump(FullPlan("stew"), <<NL>>)
    /\ ~JHas(last.reply, "error")
    /\ Len(last.reply.v.days.v) = 7
    /\ last.reply.v.days.v[7].v.day.v = "Sunday"
    /\ last.reply.v.days.v[7].v.meals.v["Dinner"].v.name.v = "stew"
    /\ RenderedSlots(last.reply.v.days.v[7],
                     <<"Dinner", "Snack 2", "Lunch", "Snack 1", "Breakfast">>)[1]
           = Chars("Breakfast")

\* C18: when a plan the normalizer returned is written out as JSON text and
\* that text is given to the normalizer again, the result is the same plan.
C18_NormalizerIdempotent ==
    [][last'.op = "again" => last'.reply = last.reply]_vars

\* the three days made from a plan keyed day_1, day_2, day_3 came back from
\* their own JSON text
C18_Witness ==
    /\ last.op = "again"
    /\ ~JHas(last.reply, "error")
    /\ Len(last.reply.v.days.v) = 3
    /\ last.reply.v.days.v[2].v.day.v = "Tuesday"
    /\ last.message_body[1] = Punct("{")
    /\ last.message_body[2] = Str("days")

\* a parsing strategy gave a dict that the structure handling turns into a
\* plan with at least one day
GivesDays(parsed) ==
    /\ parsed.ok
    /\ IsDict(parsed.value)
    /\ LET plan == NormalizeStructure(parsed.value) IN
       ~JHas(plan, "error") /\ Len(plan.v.days.v) >= 1

\* the text after the first end of a think section, <<>> without one
AfterThink(content) ==
    LET think_end == {i \in 1..Len(content) : content[i] = ThinkEnd} IN
    IF think_end = {} THEN <<>>
    ELSE SubSeq(content, (CHOOSE i \in think_end : \A j \in think_end : i <= j) + 1,
                Len(content))

\* the strategies that yield at least one day for a completion text
YieldingStrategies(content) ==
    {strategy \in {"direct", "fenced", "after think", "brace scan", "lines"} :
        CASE strategy = "direct" -> GivesDays(json_loads(content))
          [] strategy = "fenced" ->
                 FencedBlock(content) # <<>> /\ GivesDays(json_loads(FencedBlock(content)))
          [] strategy = "after think" ->
                 \/ GivesDays(json_loads(AfterThink(content)))
                 \/ /\ FencedBlock(AfterThink(content)) # <<>>
                    /\ GivesDays(json_loads(FencedBlock(AfterThink(content))))
          [] strategy = "brace scan" -> GivesDays(BraceScan(content, 1))
          [] strategy = "lines" ->
                 Len(_format_text_response_to_json(content).v.days.v) >= 1}

\* C19: the normalizer answers a completion text with an error only if none of
\* its strategies (the text as JSON, a fenced JSON block, the text after the
\* think section, the scan for a balanced object, the line parser of weekdays
\* and meals) yields a day; a text from which a later strategy gets a day is
\* not rejected because an earlier one parsed it into something without days.
C19_ErrorOnlyWhenNoStrategyYields ==
    (last.op = "generate_meal_plan" /\ JHas(last.reply, "error"))
        => YieldingStrategies(last.message_body) = {}

\* a text that is no JSON and names no weekday is answered with an error
C19_Witness ==
    /\ last.op = "generate_meal_plan"
    /\ last.message_body = <<Word("Sorry")>>
    /\ JHas(last.reply, "error")
    /\ YieldingStrategies(last.message_body) = {}

\* the indices of day_1 .. day_7 that are keys of the extracted plan under
\* 'meal_plan'
KeyedIndices(content) ==
    LET parsed == extract_json_from_response(content) IN
    IF parsed.ok /\ JHas(parsed.value, "meal_plan") /\ IsDict(parsed.value.v.meal_plan)
    THEN {i \in 1..7 :
             \E key \in DOMAIN parsed.value.v.meal_plan.v :
                 key = CASE i = 1 -> "day_1" [] i = 2 -> "day_2" [] i = 3 -> "day_3"
                         [] i = 4 -> "day_4" [] i = 5 -> "day_5" [] i = 6 -> "day_6"
                         [] i = 7 -> "day_7"}
    ELSE {}

\* C20: a completion from which a dict is extracted whose 'meal_plan' object
\* has keys among day_1 .. day_7 is returned as a days list with one entry for each
\* index present, in increasing index order; the entry for day_i has the i-th
\* weekday name (day_1 Monday .. day_7 Sunday) and the meals stored under
\* day_i, so an absent index does not shift the weekdays of the others.
C20_OrdinalKeysBecomeWeekdays ==
    (last.op = "generate_meal_plan" /\ KeyedIndices(last.message_body) # {})
        => LET indices == KeyedIndices(last.message_body)
               nested == extract_json_from_response(last.message_body).value.v.meal_plan.v
               weekday(i) == <<"Monday", "Tuesday", "Wednesday", "Thursday", "Friday",
                               "Saturday", "Sunday">>[i]
           IN  /\ ~JHas(last.reply, "error")
               /\ DOMAIN last.reply.v = {"days"}
               /\ Len(last.reply.v.days.v) = Cardinality(indices)
               /\ \A i \in indices :
                      LET n == Cardinality({j \in indices : j <= i})
                          key == CHOOSE k \in DOMAIN nested :
                                     \E s \in {<<1, "day_1">>, <<2, "day_2">>, <<3, "day_3">>,
                                               <<4, "day_4">>, <<5, "day_5">>, <<6, "day_6">>,
                                               <<7, "day_7">>} : s = <<i, k>>
                      IN  /\ last.reply.v.days.v[n].v.day.v = weekday(i)
                          /\ last.reply.v.days.v[n].v.meals = nested[key]

\* a plan keyed day_2 and day_5 came back as Tuesday and Friday
C20_Witness ==
    /\ last.op = "generate_meal_plan"
    /\ KeyedIndices(last.message_body) = {2, 5}
    /\ Len(last.reply.v.days.v) = 2
    /\ last.reply.v.days.v[1].v.day.v = "Tuesday"
    /\ last.reply.v.days.v[2].v.day.v = "Friday"
    /\ last.reply.v.days.v[2].v.meals.v["Breakfast"].v.name.v = "oats"

----------------------------------------------------------------------------
(* bot_logic.py: cleaning the tip shown under a day (specification SpecTip) *)

\* "Stay hydrated and eat regularly for optimal nutrient absorption."
DefaultTip ==
    <<"S","t","a","y"," ","h","y","d","r","a","t","e","d"," ","a","n","d",
      " ","e","a","t"," ","r","e","g","u","l","a","r","l","y"," ","f","o",
      "r"," ","o","p","t","i","m","a","l"," ","n","u","t","r","i","e","n",
      "t"," ","a","b","s","o","r","p","t","i","o","n",".">>

\* re.sub(r'<[^>]+>', '', tip_content): from left to right, each '<' that has a
\* '>' after it with at least one character in between is removed with
\* everything up to the first such '>'
RECURSIVE RemoveTags(_)
RemoveTags(s) ==
    LET closing(i) == {j \in (i + 1)..Len(s) : s[j] = ">"}
        first_close(i) == CHOOSE j \in closing(i) : \A k \in closing(i) : j <= k
        opens == {i \in 1..Len(s) :
                     s[i] = "<" /\ closing(i) # {} /\ first_close(i) > i + 1}
    IN  IF opens = {} THEN s
        ELSE LET i == CHOOSE x \in opens : \A y \in opens : x <= y
             IN  SubSeq(s, 1, i - 1) \o RemoveTags(SubSeq(s, first_close(i) + 1, Len(s)))

\* tip_content.split('.')[0]
FirstSentence(s) ==
    LET dots == {i \in 1..Len(s) : s[i] = "."} IN
    IF dots = {} THEN s
    ELSE SubSeq(s, 1, (CHOOSE i \in dots : \A j \in dots : i <= j) - 1)

\* tip_content.endswith(('.', '!', '?'))
EndsWithPunctuation(s) == s # <<>> /\ s[Len(s)] \in {".", "!", "?"}

\* BotLogic._clean_tip_content
_clean_tip_content(tip_content) ==
    IF tip_content = <<>> THEN DefaultTip
    ELSE LET stripped == Strip(RemoveTags(tip_content))
             cut == IF Len(stripped) > 150
                    THEN IF Len(FirstSentence(stripped)) < 150
                         THEN FirstSentence(stripped) \o <<".">>
                         ELSE SubSeq(stripped, 1, 147) \o <<".", ".", ".">>
                    ELSE stripped
         IN  IF cut # <<>> /\ ~EndsWithPunctuation(cut) THEN cut \o <<".">> ELSE cut

\* n times the character c
Rep(c, n) == [i \in 1..n |-> c]

\* tip texts: something in front, a first sentence, more text, an ending
TipTexts ==
    {front \o Rep("a", k) \o stop \o Rep("b", m) \o ending :
        front \in {<<>>, <<" ">>, <<"\n">>, <<"<", ">">>,
                   <<"<","t","h","i","n","k",">","o","k","<","/","t","h","i","n","k",">">>},
        k \in {0, 10, 149, 150},
        stop \in {<<>>, <<".">>, <<" ", ".">>},
        m \in {0, 1, 140, 141, 160},
        ending \in {<<>>, <<".">>, <<"!">>, <<"?">>, <<" ">>, <<"<", "b", ">">>, <<"<">>}}

InitTip ==
    /\ users = [p \in {} |-> NewUser]
    /\ mealPlans = <<>>
    /\ convLog = <<>>
    /\ \E tip_content \in TipTexts :
           last = Request("tip", "", tip_content, "generate_meal_plan_tip", 200, "", <<>>)
    /\ sent = <<>>
    /\ gen = [t \in Threads |-> IdleThread]

\* the tip text is cleaned
CleanTip ==
    /\ last.op = "tip"
    /\ last' = Request("clean", "", last.message_body, "_clean_tip_content", 200, "",
                       _clean_tip_content(last.message_body))
    /\ UNCHANGED <<users, mealPlans, convLog, sent, gen>>

SpecTip == InitTip /\ [][CleanTip]_vars

\* a '<', one or more characters other than '>', and a '>'
HasTag(s) ==
    \E i, j \in 1..Len(s) :
        /\ i + 1 < j
        /\ s[i] = "<"
        /\ s[j] = ">"
        /\ \A k \in (i + 1)..(j - 1) : s[k] # ">"

----------------------------------------------------------------------------
(* utils/sonar.py: the tip derived from the selected day (specification    *)
(* SpecDayTip)                                                              *)

\* nutrient_map, in the order of the dict
nutrient_map ==
    <<
     [ingredient |-> <<"m","i","l","l","e","t">>,
      nutrient |-> <<"i","r","o","n">>,
      benefit |-> "essential for preventing anemia", source |-> "ACOG guidelines"],
     [ingredient |-> <<"s","p","i","n","a","c","h">>,
      nutrient |-> <<"f","o","l","a","t","e">>,
      benefit |-> "supports fetal development", source |-> "March of Dimes"],
     [ingredient |-> <<"s","a","l","m","o","n">>,
      nutrient |-> <<"o","m","e","g","a","-","3"," ","f","a","t","t","y"," ","a","c","i","d","s">>,
      benefit |-> "promotes brain development", source |-> "APA"],
     [ingredient |-> <<"m","a","c","k","e","r","e","l">>,
      nutrient |-> <<"o","m","e","g","a","-","3"," ","f","a","t","t","y"," ","a","c","i","d","s">>,
      benefit |-> "promotes brain development", source |-> "APA"],
     [ingredient |-> <<"t","i","l","a","p","i","a">>,
      nutrient |-> <<"p","r","o","t","e","i","n">>,
      benefit |-> "supports tissue growth", source |-> "Mayo Clinic"],
     [ingredient |-> <<"f","i","s","h">>,
      nutrient |-> <<"o","m","e","g","a","-","3"," ","f","a","t","t","y"," ","a","c","i","d","s">>,
      benefit |-> "promotes brain development", source |-> "APA"],
     [ingredient |-> <<"c","h","i","c","k","e","n">>,
      nutrient |-> <<"p","r","o","t","e","i","n">>,
      benefit |-> "supports muscle development", source |-> "ACOG"],
     [ingredient |-> <<"t","u","r","k","e","y">>,
      nutrient |-> <<"i","r","o","n">>,
      benefit |-> "prevents anemia", source |-> "ACOG"],
     [ingredient |-> <<"b","e","e","f">>,
      nutrient |-> <<"i","r","o","n">>,
      benefit |-> "prevents anemia", source |-> "ACOG"],
     [ingredient |-> <<"e","g","g","s">>,
      nutrient |-> <<"c","h","o","l","i","n","e">>,
      benefit |-> "supports brain development", source |-> "NIH"],
     [ingredient |-> <<"a","v","o","c","a","d","o">>,
      nutrient |-> <<"f","o","l","a","t","e">>,
      benefit |-> "prevents birth defects", source |-> "CDC"],
     [ingredient |-> <<"p","l","a","n","t","a","i","n">>,
      nutrient |-> <<"p","o","t","a","s","s","i","u","m">>,
      benefit |-> "regulates blood pressure", source |-> "AHA"],
     [ingredient |-> <<"s","w","e","e","t"," ","p","o","t","a","t","o">>,
      nutrient |-> <<"b","e","t","a","-","c","a","r","o","t","e","n","e">>,
      benefit |-> "supports vision development", source |-> "NIH"],
     [ingredient |-> <<"b","e","a","n","s">>,
      nutrient |-> <<"f","i","b","e","r">>,
      benefit |-> "aids digestion", source |-> "ACOG"],
     [ingredient |-> <<"q","u","i","n","o","a">>,
      nutrient |-> <<"p","r","o","t","e","i","n">>,
      benefit |-> "provides complete amino acids", source |-> "Harvard Health"],
     [ingredient |-> <<"b","r","o","w","n"," ","r","i","c","e">>,
      nutrient |-> <<"c","o","m","p","l","e","x"," ","c","a","r","b","s">>,
      benefit |-> "provides sustained energy", source |-> "Mayo Clinic"],
     [ingredient |-> <<"c","o","c","o","n","u","t">>,
      nutrient |-> <<"h","e","a","l","t","h","y"," ","f","a","t","s">>,
      benefit |-> "supports nutrient absorption", source |-> "NIH"],
     [ingredient |-> <<"p","e","a","n","u","t","s">>,
      nutrient |-> <<"p","r","o","t","e","i","n">>,
      benefit |-> "supports growth", source |-> "ACOG"],
     [ingredient |-> <<"c","a","s","h","e","w","s">>,
      nutrient |-> <<"m","a","g","n","e","s","i","u","m">>,
      benefit |-> "supports bone health", source |-> "NIH"],
     [ingredient |-> <<"w","a","t","e","r">>,
      nutrient |-> <<"h","y","d","r","a","t","i","o","n">>,
      benefit |-> "aids nutrient transport", source |-> "ACOG"]>>

\* str.capitalize()
Capitalize(s) ==
    LET UpperChar(c) ==
            IF \E i \in 1..26 : LowerLetters[i] = c
            THEN UpperLetters[CHOOSE i \in 1..26 : LowerLetters[i] = c]
            ELSE c
    IN  [i \in 1..Len(s) |-> IF i = 1 THEN UpperChar(s[i]) ELSE LowerChar(s[i])]

\* ' '.join(meals)
RECURSIVE JoinSpace(_)
JoinSpace(meals) ==
    IF meals = <<>> THEN <<>>
    ELSE IF Len(meals) = 1 THEN meals[1]
    ELSE meals[1] \o <<" ">> \o JoinSpace(Tail(meals))

\* details.get('description', '')
DescriptionOf(details) == JGet(details, "description", JStr(<<>>)).v

\* the descriptions gathered from the keys 'breakfast', 'lunch', 'dinner' and
\* the list under 'snacks'
GatheredMeals(meals_data) ==
    LET plain == SelectSeq(<<"breakfast", "lunch", "dinner">>,
                           LAMBDA meal_type : JHas(meals_data, meal_type))
        snacks == IF JHas(meals_data, "snacks") THEN meals_data.v.snacks.v ELSE <<>>
    IN  [i \in 1..Len(plain) |-> DescriptionOf(meals_data.v[plain[i]])]
            \o [i \in 1..Len(snacks) |-> DescriptionOf(snacks[i])]

\* the tip as the f-string puts it together: nutrient capitalized, benefit,
\* " - " and the source
TipOf(nutrient, benefit, source) ==
    [content |-> <<Capitalize(nutrient), benefit, source>>, source |-> source]

\* SonarAPI.generate_meal_plan_tip
generate_meal_plan_tip(user_profile, day_data) ==
    LET trimester == user_profile.trimester
        conditions == user_profile.pregnancy_conditions
        meals_data == JGet(day_data, "meals", day_data)
        ingredients == Lower(JoinSpace(GatheredMeals(meals_data)))
        found == {i \in 1..Len(nutrient_map) :
                     Contains(ingredients, nutrient_map[i].ingredient)}
    IN  IF found # {}
        THEN LET data == nutrient_map[CHOOSE i \in found : \A j \in found : i <= j]
             IN  TipOf(data.nutrient, data.benefit, data.source)
        ELSE IF "gestational diabetes" \in conditions
        THEN TipOf(<<"f","i","b","e","r">>, "helps regulate blood sugar", "ADA")
        ELSE IF trimester = 3
        THEN TipOf(<<"c","a","l","c","i","u","m">>, "supports final bone development", "ACOG")
        ELSE TipOf(<<"i","r","o","n">>, "prevents pregnancy anemia", "ACOG")

\* a meal with a description only
Described(description) == JDict([description |-> JStr(description)])

\* days as stored by plan generation (slots Breakfast .. Dinner under 'meals'),
\* and days in the shape generate_meal_plan_tip reads (breakfast, lunch,
\* dinner and a list of snacks, under 'meals' or at the top)
TipDays ==
    {JDict([day |-> JStr("Monday"),
            meals |-> JDict([slot \in {"Breakfast", "Lunch", "Snack 1", "Snack 2", "Dinner"} |->
                CASE slot = "Breakfast" -> Described(<<"S","p","i","n","a","c","h"," ","o","m","e","l","e","t","t","e">>)
                  [] slot = "Lunch" -> Described(<<"G","r","i","l","l","e","d"," ","s","a","l","m","o","n">>)
                  [] slot = "Snack 1" -> Described(<<"A","p","p","l","e">>)
                  [] slot = "Snack 2" -> Described(<<"Y","o","g","h","u","r","t">>)
                  [] slot = "Dinner" -> Described(<<"M","i","l","l","e","t"," ","p","o","r","r","i","d","g","e">>)])]),
     JDict([day |-> JStr("Monday"),
            meals |-> JDict([slot \in {"Breakfast", "Dinner"} |->
                CASE slot = "Breakfast" -> Described(<<"O","a","t","m","e","a","l">>)
                  [] slot = "Dinner" -> Described(<<"L","e","n","t","i","l"," ","s","o","u","p">>)])]),
     JDict([day |-> JStr("Monday"),
            meals |-> JDict([slot \in {"Dinner"} |-> Described(<<"R","o","a","s","t"," ","t","u","r","k","e","y">>)])]),
     JDict([day |-> JStr("Monday"), meals |-> JDict(<<>>)]),
     JDict([day |-> JStr("Monday"),
            meals |-> JDict([breakfast |-> Described(<<"F","i","s","h"," ","s","t","e","w"," ","w","i","t","h"," ","m","i","l","l","e","t">>),
                             lunch |-> Described(<<"R","i","c","e">>),
                             snacks |-> JList(<<Described(<<"C","a","s","h","e","w","s">>)>>)])]),
     JDict([breakfast |-> Described(<<"B","o","i","l","e","d"," ","E","G","G","S">>)]),
     JDict([day |-> JStr("Monday"),
            meals |-> JDict([breakfast |-> Described(<<"T","o","a","s","t">>), snacks |-> JList(<<>>)])]),
     JDict([day |-> JStr("Monday"),
            meals |-> JDict([breakfast |-> Described(<<"M","a","s","h","e","d"," ","s","w","e","e","t">>),
                             lunch |-> Described(<<"p","o","t","a","t","o"," ","c","a","k","e","s">>)])])}

\* the condition sets onboarding stores, and the free text a user may give as
\* another condition ("" when none)
TipConditionSets ==
    {{}, {"Gestational diabetes"}, {"Anemia or low iron", "Gestational diabetes"},
     {"Hypertension"}}
TipConditionNotes == {"", "gestational diabetes"}

InitDayTip ==
    /\ \E p \in Phones, trimester \in {NoTrimester, 1, 2, 3},
          conditions \in TipConditionSets, note \in TipConditionNotes :
           users = [q \in {p} |->
                      WithNotes([NewUser EXCEPT
                                    !.conversation_state = "AWAITING_MEAL_PLAN_DAY",
                                    !.trimester = trimester,
                                    !.pregnancy_conditions = conditions],
                                "", note)]
    /\ \E p \in Phones, day_data \in TipDays :
           mealPlans = <<[user |-> p, week_number |-> 1,
                          meal_plan_data |-> JDict([days |-> JList(<<day_data>>)])]>>
    /\ convLog = <<>>
    /\ last = NoRequest
    /\ sent = <<>>
    /\ gen = [t \in Threads |-> IdleThread]

\* the part of user_profile the tip reads: the trimester, and the condition
\* names followed by the other condition when there is one
TipProfile(user) ==
    [trimester |-> user.trimester,
     pregnancy_conditions |->
         user.pregnancy_conditions
             \cup (IF user.other_conditions # "" THEN {user.other_conditions} ELSE {})]

\* the tip for the selected day of the stored plan is derived
DeriveTip ==
    /\ last.op = "none"
    /\ LET row == mealPlans[1]
           selected_day_data == row.meal_plan_data.v.days.v[1]
       IN  last' = Request("tip", row.user, <<>>, "generate_meal_plan_tip", 200, "",
                           generate_meal_plan_tip(TipProfile(users[row.user]),
                                                  selected_day_data))
    /\ UNCHANGED <<users, mealPlans, convLog, sent, gen>>

SpecDayTip == InitDayTip /\ [][DeriveTip]_vars

----------------------------------------------------------------------------
(* Properties of the derived tip (specification SpecDayTip) *)

\* the day of the stored plan and its meals
TipDay == mealPlans[1].meal_plan_data.v.days.v[1]
TipDayMeals == IF JHas(TipDay, "meals") THEN TipDay.v.meals ELSE TipDay

\* the day is in the shape plan generation stores
CanonicalDay ==
    /\ JHas(TipDay, "meals")
    /\ DOMAIN TipDayMeals.v # {}
    /\ DOMAIN TipDayMeals.v \subseteq {"Breakfast", "Lunch", "Snack 1", "Snack 2", "Dinner"}

\* the descriptions of the day, wherever they stand
DayDescriptions ==
    UNION {IF TipDayMeals.v[key].t = "list"
           THEN {TipDayMeals.v[key].v[i].v.description.v :
                    i \in 1..Len(TipDayMeals.v[key].v)}
           ELSE IF JHas(TipDayMeals.v[key], "description")
           THEN {TipDayMeals.v[key].v.description.v}
           ELSE {} : key \in DOMAIN TipDayMeals.v}

\* the table entries whose keyword stands in a description of the day
KeywordsInDay ==
    {i \in 1..Len(nutrient_map) :
        \E description \in DayDescriptions :
            Contains(Lower(description), nutrient_map[i].ingredient)}

\* no keyword stands in a description, nor across two descriptions put one
\* after the other
NoKeywordInDay ==
    \A i \in 1..Len(nutrient_map) :
        \A a, b \in DayDescriptions :
            ~Contains(Lower(a \o <<" ">> \o b), nutrient_map[i].ingredient)

----------------------------------------------------------------------------
(* Properties of nutrition Q&A (specification SpecDay) *)

\* C24: every message routed to nutrition Q&A appends exactly one Conversation
\* row holding the question and the very reply returned to the user, whether
\* the completion service answers or fails, and leaves the user's
\* conversation_state and profile fields as they were.
C24_QuestionLoggedOnce ==
    [][(/\ last'.op \in {"webhook", "process_message_async"}
        /\ last'.handler = "_handle_nutrition_question")
       => /\ Len(last'.reply) = 1
          /\ convLog' = Append(convLog, [user |-> last'.from_number,
                                         message |-> last'.message_body,
                                         response |-> last'.reply[1]])
          /\ users'[last'.from_number] =
                 (IF last'.from_number \in DOMAIN users
                  THEN users[last'.from_number] ELSE NewUser)]_vars

\* a question was answered with the static fallback, and the row saved holds
\* the question and that reply
C24_Witness ==
    /\ last.op = "webhook"
    /\ last.handler = "_handle_nutrition_question"
    /\ last.exc = ""
    /\ last.reply = <<QAFallback>>
    /\ Len(convLog) = 1
    /\ convLog[1] = [user |-> last.from_number, message |-> last.message_body,
                     response |-> QAFallback]
    /\ users[last.from_number].conversation_state = "COMPLETED_ONBOARDING"

----------------------------------------------------------------------------
(* utils/sonar.py and bot_logic.py: the answer to a nutrition question, as   *)
(* text (specification SpecAnswer).  A character outside ASCII is written    *)
(* "#", one "#" for each code point.                                         *)

\* pat stands in s at position i
StartsAt(s, pat, i) ==
    i + Len(pat) - 1 <= Len(s) /\ SubSeq(s, i, i + Len(pat) - 1) = pat

\* first position from 'from' on where pat stands in s, 0 when nowhere
FindSub(s, pat, from) ==
    LET at == {i \in from..Len(s) : StartsAt(s, pat, i)}
    IN  IF at = {} THEN 0 ELSE CHOOSE i \in at : \A j \in at : i <= j

\* re.sub(r'<think>.*?</think>', '', content, flags=re.DOTALL)
RECURSIVE RemoveThink(_)
RemoveThink(s) ==
    LET open == FindSub(s, <<"<","t","h","i","n","k",">">>, 1)
        close == IF open = 0 THEN 0
                 ELSE FindSub(s, <<"<","/","t","h","i","n","k",">">>, open + 7)
    IN  IF close = 0 THEN s
        ELSE SubSeq(s, 1, open - 1) \o RemoveThink(SubSeq(s, close + 8, Len(s)))

\* re.sub(r'\n\s*\n', '\n\n', s): a line end, white space, and the last line
\* end of that white space become two line ends
RECURSIVE CollapseBlankLines(_)
CollapseBlankLines(s) ==
    LET run_end(i) == CHOOSE r \in i..Len(s) :
                          /\ \A k \in (i + 1)..r : IsSpace(s[k])
                          /\ (r = Len(s) \/ ~IsSpace(s[r + 1]))
        ends(i) == {j \in (i + 1)..run_end(i) : s[j] = "\n"}
        starts == {i \in 1..Len(s) : s[i] = "\n" /\ ends(i) # {}}
    IN  IF starts = {} THEN s
        ELSE LET i == CHOOSE x \in starts : \A y \in starts : x <= y
                 j == CHOOSE x \in ends(i) : \A y \in ends(i) : y <= x
             IN  SubSeq(s, 1, i - 1) \o <<"\n", "\n">>
                     \o CollapseBlankLines(SubSeq(s, j + 1, Len(s)))

\* re.findall(r'\[(\d+)\]', content) as integers: the numbers in brackets
citation_markers(content) ==
    LET digits_end(i) == CHOOSE j \in (i + 1)..(Len(content) + 1) :
                             /\ \A k \in (i + 1)..(j - 1) : IsDigit(content[k])
                             /\ (j = Len(content) + 1 \/ ~IsDigit(content[j]))
        marks == {i \in 1..Len(content) :
                     /\ content[i] = "["
                     /\ digits_end(i) > i + 1
                     /\ digits_end(i) <= Len(content)
                     /\ content[digits_end(i)] = "]"}
    IN  {DigitsToInt(SubSeq(content, i + 1, digits_end(i) - 1)) : i \in marks}

\* where the host begins when "http://" or "https://" stands at i, else 0
HostStart(url, i) ==
    IF StartsAt(url, <<"h","t","t","p",":","/","/">>, i) THEN i + 7
    ELSE IF StartsAt(url, <<"h","t","t","p","s",":","/","/">>, i) THEN i + 8
    ELSE 0

\* r'https?://(?:www\.)?([^/]+)' matches at i: something other than "/" follows
MatchesAt(url, i) ==
    /\ HostStart(url, i) # 0
    /\ HostStart(url, i) <= Len(url)
    /\ url[HostStart(url, i)] # "/"

\* where the group begins: past a "www." that something other than "/" follows
GroupStart(url, a) ==
    IF StartsAt(url, <<"w","w","w",".">>, a) /\ a + 4 <= Len(url) /\ url[a + 4] # "/"
    THEN a + 4 ELSE a

\* where the group ends: before the next "/", or with the url
GroupEnd(url, b) ==
    IF \A k \in b..Len(url) : url[k] # "/" THEN Len(url)
    ELSE (CHOOSE k \in b..Len(url) :
              url[k] = "/" /\ \A l \in b..(k - 1) : url[l] # "/") - 1

\* re.search(r'https?://(?:www\.)?([^/]+)', url).group(1), <<>> without a match
domain_name(url) ==
    IF \A i \in 1..Len(url) : ~MatchesAt(url, i) THEN <<>>
    ELSE LET b == GroupStart(url, HostStart(url,
                      CHOOSE i \in 1..Len(url) :
                          MatchesAt(url, i) /\ \A j \in 1..(i - 1) : ~MatchesAt(url, j)))
         IN  SubSeq(url, b, GroupEnd(url, b))

\* ", ".join(domains)
RECURSIVE JoinComma(_)
JoinComma(domains) ==
    IF domains = <<>> THEN <<>>
    ELSE IF Len(domains) = 1 THEN domains[1]
    ELSE domains[1] \o <<",", " ">> \o JoinComma(Tail(domains))

\* the loop over citations[:5]: "[i] domain\n" for each marked i, the url
\* itself standing for a domain that cannot be found
RECURSIVE MarkedSources(_, _, _)
MarkedSources(citations, used_indices, i) ==
    IF i > Len(citations) \/ i > 5 THEN <<>>
    ELSE (IF i \in used_indices
          THEN <<"[", Digits[i + 1], "]", " ">>
                   \o (IF domain_name(citations[i]) # <<>>
                       THEN domain_name(citations[i]) ELSE citations[i])
                   \o <<"\n">>
          ELSE <<>>) \o MarkedSources(citations, used_indices, i + 1)

\* the loop over citations[:3]: the domains found, each once
RECURSIVE GeneralSources(_, _, _)
GeneralSources(citations, domains, i) ==
    IF i > Len(citations) \/ i > 3 THEN domains
    ELSE LET name == domain_name(citations[i]) IN
         GeneralSources(citations,
                        IF name # <<>> /\ \A k \in 1..Len(domains) : domains[k] # name
                        THEN Append(domains, name) ELSE domains,
                        i + 1)

\* SonarAPI._format_citations
_format_citations(content, citations) ==
    IF citations = <<>> THEN <<>>
    ELSE IF citation_markers(content) # {}
    THEN <<"\n","\n","#"," ","S","o","u","r","c","e","s",":","\n">>
             \o MarkedSources(citations, citation_markers(content), 1)
    ELSE <<"\n","\n","#"," ","S","o","u","r","c","e","s",":"," ">>
             \o JoinComma(GeneralSources(citations, <<>>, 1))

\* content[:1350].rfind of '.', '?' and '!', the largest: a 0-based index, -1
\* when none stands there
last_sentence_end(content) ==
    LET truncated == SubSeq(content, 1, 1350)
        at == {i \in 1..Len(truncated) : truncated[i] \in {".", "?", "!"}}
    IN  IF at = {} THEN 0 - 1 ELSE (CHOOSE i \in at : \A j \in at : j <= i) - 1

\* the answers get_nutrition_answer gives without a completion
NoChoicesAnswer ==
    <<"#","#"," ","I"," ","c","o","u","l","d","n","'","t"," ","g","e","n","e",
      "r","a","t","e"," ","a","n"," ","a","n","s","w","e","r"," ","r","i","g",
      "h","t"," ","n","o","w","."," ","P","l","e","a","s","e"," ","t","r","y",
      " ","a","s","k","i","n","g"," ","a","g","a","i","n"," ","o","r"," ","c",
      "o","n","s","u","l","t"," ","y","o","u","r"," ","h","e","a","l","t","h",
      "c","a","r","e"," ","p","r","o","v","i","d","e","r"," ","f","o","r"," ",
      "g","u","i","d","a","n","c","e",".">>
TechnicalAnswer ==
    <<"#","#"," ","I","'","m"," ","e","x","p","e","r","i","e","n","c","i","n",
      "g"," ","t","e","c","h","n","i","c","a","l"," ","d","i","f","f","i","c",
      "u","l","t","i","e","s","."," ","P","l","e","a","s","e"," ","t","r","y",
      " ","a","g","a","i","n"," ","l","a","t","e","r"," ","o","r"," ","c","o",
      "n","s","u","l","t"," ","y","o","u","r"," ","h","e","a","l","t","h","c",
      "a","r","e"," ","p","r","o","v","i","d","e","r",".">>
\* the fallback of _handle_nutrition_question
QAFallbackText ==
    <<"#","#"," ","I","'","m"," ","h","a","v","i","n","g"," ","t","r","o","u",
      "b","l","e"," ","r","i","g","h","t"," ","n","o","w","."," ","F","o","r",
      " ","p","r","e","g","n","a","n","c","y"," ","n","u","t","r","i","t","i",
      "o","n"," ","q","u","e","s","t","i","o","n","s",","," ","p","l","e","a",
      "s","e"," ","c","o","n","s","u","l","t"," ","y","o","u","r"," ","h","e",
      "a","l","t","h","c","a","r","e"," ","p","r","o","v","i","d","e","r",
      ".">>

\* SonarAPI.get_nutrition_answer from the response of query on: response is
\* [kind |-> "raise"] when query raised, else it has choices (a sequence of
\* contents) and citations
get_nutrition_answer(response) ==
    IF response.kind = "raise" THEN TechnicalAnswer
    ELSE IF response.choices = <<>> THEN NoChoicesAnswer
    ELSE LET cleaned == CollapseBlankLines(Strip(RemoveThink(response.choices[1])))
             content == cleaned \o _format_citations(cleaned, response.citations)
         IN  IF Len(content) > 1400
             THEN IF last_sentence_end(content) > 1000
                  THEN SubSeq(content, 1, last_sentence_end(content) + 1)
                  ELSE SubSeq(content, 1, 1350) \o <<".", ".", ".">>
             ELSE content

\* a reply that is the completion with its sources, cut nowhere
NutritionReply_Uncut(response) ==
    IF response.kind = "raise" THEN TechnicalAnswer
    ELSE IF response.choices = <<>> THEN NoChoicesAnswer
    ELSE LET cleaned == CollapseBlankLines(Strip(RemoveThink(response.choices[1])))
         IN  cleaned \o _format_citations(cleaned, response.citations)

\* _handle_nutrition_question from the call of get_nutrition_answer on: the
\* reply, cut when longer than 1600
NutritionReply(response) ==
    LET answer == get_nutrition_answer(response) IN
    IF Len(answer) > 1600 THEN SubSeq(answer, 1, 1550) \o <<".", ".", ".">> ELSE answer

\* the body of a completion: a sentence of k characters, its end, m more
\* characters
Body(k, stop, m) == Rep("a", k) \o stop \o Rep("b", m)

AnswerContents ==
    {front \o Body(k, stop, m) \o ending :
        front \in {<<>>,
                   <<"<","t","h","i","n","k",">","h","m",".","<","/","t","h","i","n","k",">","\n">>},
        k \in {10, 1000, 1001, 1340},
        stop \in {<<>>, <<"?">>, <<".", "\n", " ", "\n", "\n">>},
        m \in {0, 40, 390, 700},
        ending \in {<<>>, <<" ", "[", "1", "]", ".">>, <<"[", "2", "]", "[", "0", "7", "]">>}}

\* citation lists: none, short ones, one with a domain longer than any reply
AnswerCitations ==
    {<<>>,
     <<<<"h","t","t","p","s",":","/","/","w","w","w",".","a","c","o","g",".","o","r","g","/","w","o","m","e","n","s","-","h","e","a","l","t","h">>,
       <<"h","t","t","p",":","/","/","n","i","h",".","g","o","v">>,
       <<"h","t","t","p","s",":","/","/","w","w","w",".","a","c","o","g",".","o","r","g","/","f","a","q">>,
       <<"h","t","t","p","s",":","/","/","c","d","c",".","g","o","v","/","f","o","o","d">>>>,
     <<<<"f","t","p",":","/","/","w","h","o",".","i","n","t">>,
       <<"h","t","t","p","s",":","/","/">> \o Rep("d", 2000) \o <<"/","x">>>>}

\* what query hands back
AnswerResponses ==
    {[kind |-> "raise"], [kind |-> "ok", choices |-> <<>>, citations |-> <<>>]}
        \cup {[kind |-> "ok", choices |-> <<content>>, citations |-> citations] :
                 content \in AnswerContents, citations \in AnswerCitations}

InitAnswer ==
    /\ users = [p \in Phones |->
                  [NewUser EXCEPT !.conversation_state = "COMPLETED_ONBOARDING",
                                  !.trimester = 1]]
    /\ mealPlans = <<>>
    /\ convLog = <<>>
    /\ \E p \in Phones, response \in AnswerResponses :
           last = Request("question", p, <<"n","u","t","s","?">>, "query", 200, "", response)
    /\ sent = <<>>
    /\ gen = [t \in Threads |-> IdleThread]

\* the answer is made from the response, saved with the question and returned
Answer ==
    /\ last.op = "question"
    /\ LET response == NutritionReply(last.reply) IN
       /\ last' = Request("answer", last.from_number, last.message_body,
                          "_handle_nutrition_question", 200, "", response)
       /\ convLog' = Append(convLog, [user |-> last.from_number,
                                      message |-> last.message_body,
                                      response |-> response])
    /\ UNCHANGED <<users, mealPlans, sent, gen>>

SpecAnswer == InitAnswer /\ [][Answer]_vars

\* C25: the reply to a nutrition question is never longer than 1600
\* characters, however long the completion text and the citation list put
\* after it.
C25_ReplyWithinCap ==
    last.op = "answer" => Len(last.reply) <= 1600

\* a short completion followed by a source of 2000 characters was cut to 1350
\* characters and "...", and that reply is the one saved
C25_Witness ==
    /\ last.op = "answer"
    /\ Len(last.reply) = 1353
    /\ SubSeq(last.reply, 1, 10) = Rep("a", 10)
    /\ FindSub(last.reply, <<"S","o","u","r","c","e","s",":"," ","d","d","d">>, 1) # 0
    /\ SubSeq(last.reply, 1351, 1353) = <<".", ".", ".">>
    /\ convLog[Len(convLog)].response = last.reply

----------------------------------------------------------------------------
(* Properties of the top level of message handling (specification Spec) *)

\* C26: an exception that leaves process_message, on the synchronous path or
\* on the background path, is caught at the top level and the user gets the
\* generic apology: as the reply of the webhook (an answer with status 200
\* whose text is the apology) or as a pushed message; no answer is the error
\* answer that carries the text of the exception.
C26_InternalErrorBecomesApology ==
    (last.op \in {"webhook", "process_message_async"} /\ last.exc # "")
        => /\ last.status = 200
           /\ \/ last.reply = <<GenericApology>>
              \/ \E i \in 1..Len(sent) :
                     sent[i] = [to |-> last.from_number, body |-> Text(GenericApology)]

\* on the background path the exception was caught and the apology pushed
C26_Witness ==
    /\ last.op = "process_message_async"
    /\ last.exc = "AttributeError"
    /\ last.status = 200
    /\ sent = <<[to |-> last.from_number, body |-> Text(GenericApology)]>>

\* how often a text was pushed to a phone by the last operation
TimesPushed(to, text) ==
    Cardinality({i \in 1..Len(sent) : sent[i] = [to |-> to, body |-> Text(text)]})

\* C27: when the webhook has handed a message to background processing, the
\* reply that process_message returns for it is pushed to the sender, once,
\* whatever handler the message ended up in (plan generation, the menu, an
\* onboarding step, Q&A).
C27_BackgroundReplyPushedOnce ==
    (last.op = "process_message_async" /\ last.exc = "")
        => /\ last.reply # <<>>
           /\ \A k \in 1..Len(last.reply) : TimesPushed(last.from_number, last.reply[k]) = 1

\* a request for a meal plan went to the background, and the reply of
\* _generate_meal_plan was pushed once
C27_Witness ==
    /\ last.op = "process_message_async"
    /\ last.handler = "_generate_meal_plan"
    /\ last.exc = ""
    /\ last.reply = <<MealPlanApology>>
    /\ TimesPushed(last.from_number, MealPlanApology) = 1

----------------------------------------------------------------------------
(* The scheduled sweep over several users (specification SpecSweep) *)

SweepPhones == {"+15550001", "+15550002", "+15550003"}

\* rows of users who finished onboarding, by the usage preferences they chose
SweepRows ==
    {[NewUser EXCEPT !.conversation_state = "COMPLETED_ONBOARDING",
                     !.trimester = 2,
                     !.wants_meal_plans = plans,
                     !.wants_nutrition_tips = tips] : plans \in BOOLEAN, tips \in BOOLEAN}

InitSweep ==
    /\ users \in [SweepPhones -> SweepRows]
    /\ mealPlans = <<>>
    /\ convLog = <<>>
    /\ last = NoRequest
    /\ sent = <<>>
    /\ gen = [t \in Threads |-> IdleThread]

\* the orders in which User.objects.filter(last_active__isnull=False), a query
\* without order_by, can return the rows
Orders(S) ==
    {o \in [1..Cardinality(S) -> S] : \A i, j \in 1..Cardinality(S) : o[i] = o[j] => i = j}

\* scheduled_tasks with the rows returned in the given order; the order is kept
\* in the message_body field of the request record
scheduled_tasksIn(order, monday) ==
    /\ \A p \in DOMAIN users : ~SweepReachesLoop(users[p], monday)
    /\ sent' = SweepAll(order, monday)
    /\ last' = Request("scheduled_tasks", "", order, "scheduled_tasks", 200, "",
                       <<"Scheduled tasks processed">>)
    /\ UNCHANGED <<users, mealPlans, convLog, gen>>

SweepInOrder ==
    \E order \in Orders(DOMAIN users), monday \in BOOLEAN : scheduled_tasksIn(order, monday)

SpecSweep == InitSweep /\ [][SweepInOrder]_vars

\* the messages of the last operation that went to this phone
SentTo(p) == SelectSeq(sent, LAMBDA msg : msg.to = p)

\* C28: after one sweep every user has been processed, whichever users before
\* them in the iteration raised: each user received exactly the messages that
\* processing them alone gives, and the sweep answered with the success response.
C28_SweepSurvivesFailures ==
    last.op = "scheduled_tasks"
        => /\ last.status = 200
           /\ last.reply = <<"Scheduled tasks processed">>
           /\ \E monday \in BOOLEAN :
                  \A p \in DOMAIN users :
                      SentTo(p) = Pushes(p, SweepUser(users[p], monday))

\* the first user of the iteration raised (send_daily_tip), the last one still
\* got the weekly plan message
C28_Witness ==
    /\ last.op = "scheduled_tasks"
    /\ Len(last.message_body) = 3
    /\ SweepRaises(users[last.message_body[1]], TRUE)
    /\ SentTo(last.message_body[1]) = <<>>
    /\ SentTo(last.message_body[3]) # <<>>
    /\ last.status = 200

----------------------------------------------------------------------------
(* Properties of the share confirmation (specification SpecDay) *)

\* the summary of the last day of the latest plan stored for phone p
LastDaySummary(p) ==
    LET mine == SelectSeq(mealPlans, LAMBDA row : row.user = p)
        latest == mine[Len(mine)]
        days == latest.meal_plan_data.days
    IN  [week_number |-> latest.week_number,
         day |-> days[Len(days)].v.day,
         meals |-> days[Len(days)].v.meals]

----------------------------------------------------------------------------
(* Properties of the multiple-choice selections (specification Spec) *)

\* the text is a valid selection from the options: comma-separated numbers, each
\* within 1..len(options)
ValidSelection(m, options) ==
    SelectionsParse(m).ok /\ ~OutOfRange(SelectionsParse(m).selections, options)

\* the entries of the options at the selected 1-based indices
EntriesSelected(m, options) ==
    {options[SelectionsParse(m).selections[i]] : i \in 1..Len(SelectionsParse(m).selections)}

\* C30: after a valid dietary selection the stored preference set is exactly the
\* entries at the selected indices without "Other", whatever was stored before,
\* and without "Other" among them the state is AWAITING_ALLERGIES; after a valid
\* condition selection the stored condition set is exactly the entries at the
\* selected indices without "Other" and without "None".
C30_SelectionReplacesSet ==
    [][\A p \in Phones :
         (Handled(p, last'.message_body) /\ ~IsGlobalCommand(last'.message_body))
         => /\ (/\ StateBefore(p) = "AWAITING_DIETARY_PREFERENCES"
                /\ ValidSelection(last'.message_body, DIETARY_PREFERENCES))
               => /\ users'[p].dietary_preferences =
                         EntriesSelected(last'.message_body, DIETARY_PREFERENCES) \ {"Other"}
                  /\ "Other" \notin EntriesSelected(last'.message_body, DIETARY_PREFERENCES)
                         => users'[p].conversation_state = "AWAITING_ALLERGIES"
            /\ (/\ StateBefore(p) = "AWAITING_PREGNANCY_CONDITIONS"
                /\ ValidSelection(last'.message_body, PREGNANCY_CONDITIONS))
               => users'[p].pregnancy_conditions =
                      EntriesSelected(last'.message_body, PREGNANCY_CONDITIONS)
                          \ {"Other", "None"}]_vars

\* "1,3" was answered on a second pass through onboarding (allergies are stored
\* from the first): the set is {Vegetarian, Gluten-free}, the state AWAITING_ALLERGIES
C30_Witness ==
    /\ last.handler = "_handle_dietary_preferences_response"
    /\ last.message_body = <<"1",",","3">>
    /\ users[last.from_number].dietary_preferences = {"Vegetarian", "Gluten-free"}
    /\ users[last.from_number].conversation_state = "AWAITING_ALLERGIES"
    /\ users[last.from_number].allergies # <<>>

----------------------------------------------------------------------------
(* Properties of the usage preferences step (specification Spec) *)

\* the input is accepted by the usage step: it is "5" with blanks around it, or
\* comma-separated numbers each within 1..5
UsageAccepted(m) == Strip(m) = <<"5">> \/ ValidSelection(m, USAGE_PREFERENCES)

\* the indices the input selects
UsageSelected(m) ==
    IF Strip(m) = <<"5">> THEN {5}
    ELSE {SelectionsParse(m).selections[i] : i \in 1..Len(SelectionsParse(m).selections)}

\* C31: an accepted input handled in AWAITING_USAGE_PREFERENCES leaves the user
\* in COMPLETED_ONBOARDING; when it selects option 5 all four usage flags are
\* true, and when it is made of indices 1..4 only, exactly the flags of the
\* selected indices are true.
C31_UsageFlagsFollowSelection ==
    [][\A p \in Phones :
         (/\ Handled(p, last'.message_body)
          /\ ~IsGlobalCommand(last'.message_body)
          /\ StateBefore(p) = "AWAITING_USAGE_PREFERENCES"
          /\ UsageAccepted(last'.message_body))
         => LET sel == UsageSelected(last'.message_body)
                u == users'[p]
            IN  /\ u.conversation_state = "COMPLETED_ONBOARDING"
                /\ u.wants_meal_plans = (5 \in sel \/ 1 \in sel)
                /\ u.wants_nutrition_tips = (5 \in sel \/ 2 \in sel)
                /\ u.wants_recipe_suggestions = (5 \in sel \/ 3 \in sel)
                /\ u.wants_nutrition_qa = (5 \in sel \/ 4 \in sel)]_vars

\* "5" was answered: the four flags are set and onboarding is completed
C31_Witness ==
    /\ last.handler = "_handle_usage_preferences_response"
    /\ last.message_body = <<"5">>
    /\ users[last.from_number].conversation_state = "COMPLETED_ONBOARDING"
    /\ users[last.from_number].wants_meal_plans
    /\ users[last.from_number].wants_nutrition_tips
    /\ users[last.from_number].wants_recipe_suggestions
    /\ users[last.from_number].wants_nutrition_qa

----------------------------------------------------------------------------
(* Properties of the settings commands (specification SpecDay) *)

\* C32: "settings" and "update preferences", in any letter case and in whatever
\* state they arrive, leave the user in AWAITING_TRIMESTER with every other
\* column of the row (trimester, both sets, allergies, cultural preference,
\* the four usage flags) as it was, and every stored MealPlan as it was.
C32_SettingsKeepsProfile ==
    [][\A p \in Phones :
         (/\ Handled(p, last'.message_body)
          /\ Lower(last'.message_body) \in
                 {<<"s","e","t","t","i","n","g","s">>,
                  <<"u","p","d","a","t","e"," ","p","r","e","f","e","r","e","n","c","e","s">>})
         => /\ users'[p] = [get_or_create(p) EXCEPT
                                 !.conversation_state = "AWAITING_TRIMESTER"]
            /\ mealPlans' = mealPlans
            /\ last'.exc = ""]_vars

\* "Update Preferences" was handled for a user who has a trimester, a usage
\* flag and stored plans: the questionnaire restarts, all of them are kept
C32_Witness ==
    /\ last.message_body =
           <<"U","p","d","a","t","e"," ","P","r","e","f","e","r","e","n","c","e","s">>
    /\ last.handler = "_handle_onboarding_start"
    /\ users[last.from_number].conversation_state = "AWAITING_TRIMESTER"
    /\ users[last.from_number].trimester = 1
    /\ users[last.from_number].wants_meal_plans
    /\ mealPlans # <<>>

----------------------------------------------------------------------------
(* Messages of a user while meal-plan generations for that user are running  *)
(* (specification SpecRace): "meal plan" starts a generation in a background *)
(* thread, the Monday sweep starts one through send_scheduled_meal_plan, and *)
(* the webhook goes on handling what the user types.  As in SpecGen the      *)
(* instances carry the two note attributes, so that generation gets past the *)
(* user_profile dict.                                                        *)

\* the user typed "settings" before, or finished onboarding
RaceUsers ==
    {[NewUser EXCEPT !.conversation_state = st,
                     !.trimester = 1,
                     !.wants_meal_plans = TRUE] :
         st \in {"AWAITING_TRIMESTER", "COMPLETED_ONBOARDING"}}

InitRace ==
    /\ users \in [Phones -> RaceUsers]
    /\ mealPlans = <<>>
    /\ convLog = <<>>
    /\ last = NoRequest
    /\ sent = <<>>
    /\ gen = [t \in Threads |-> IdleThread]

\* what the user types meanwhile: answers to the questionnaire
RaceTexts == {<<"3">>, <<"5">>}

\* what the completion service does in these runs
RaceOutcomes ==
    {[kind |-> "raise"], [kind |-> "days", days |-> <<Monday, Tuesday>>]}

\* one generation is followed in each behaviour: none was started yet
NoneRunning == \A t \in Threads : gen[t].pc = "idle"

\* "meal plan" arrives: the webhook starts process_message_async
RaceAsk ==
    \E p \in Phones :
        NoneRunning /\ process_message_asyncOn(p, Loaded(p, TRUE), <<"m","e","a","l"," ","p","l","a","n">>)

\* an answer arrives and is handled on the synchronous path
RaceAnswer ==
    \E p \in Phones, m \in RaceTexts : webhookOn(p, Loaded(p, TRUE), m)

\* the Monday sweep reaches send_scheduled_meal_plan for a user who wants plans
RaceSweep ==
    \E t \in Threads, p \in Phones :
        NoneRunning /\ users[p].wants_meal_plans /\ GenCall(t, p, TRUE)

RaceStep ==
    \E t \in Threads :
        \/ \E outcome \in RaceOutcomes : GenAttempt(t, outcome)
        \/ GenDelete(t) \/ GenCreate(t) \/ GenSaveUser(t) \/ GenSend(t)
        \/ GenScheduledSend(t)

NextRace == RaceAsk \/ RaceAnswer \/ RaceSweep \/ RaceStep

SpecRace == InitRace /\ [][NextRace]_vars

ScheduledStep(t) ==
    \/ gen[t].pc = "idle" /\ gen'[t].pc # "idle" /\ gen'[t].is_scheduled
    \/ gen[t].pc # "idle" /\ gen[t].is_scheduled /\ gen'[t] # gen[t]

----------------------------------------------------------------------------
(* The summary reply and the stored plan (specification SpecGen) *)

\* the latest stored plan of phone p holds the given data
LatestPlanIs(p, meal_plan_data) ==
    LET mine == PlansOf(mealPlans, p) IN
    /\ mine # <<>>
    /\ mine[Len(mine)].meal_plan_data = meal_plan_data

----------------------------------------------------------------------------
(* The profile attributes the handlers read (specification Spec) *)

\* C36: a free text that is no global command, sent by a user in
\* COMPLETED_ONBOARDING, gets a Q&A reply (the answer or the static fallback)
\* and no internal error; an accepted usage-preferences answer gets the profile
\* summary and the menu.  The attributes these handlers read are defined on the
\* stored profile, also for a user who never chose "Other".
C36_ProfileAttributesDefined ==
    [][\A p \in Phones :
         LET m == last'.message_body IN
         Handled(p, m)
         => /\ (StateBefore(p) = "COMPLETED_ONBOARDING" /\ ~IsGlobalCommand(m))
                => /\ last'.exc = ""
                   /\ last'.handler = "_handle_nutrition_question"
                   /\ last'.reply \in {<<"{answer}">>, <<QAFallback>>}
            /\ (StateBefore(p) = "AWAITING_USAGE_PREFERENCES" /\ ~IsGlobalCommand(m)
                    /\ UsageAccepted(m))
                => /\ last'.exc = ""
                   /\ last'.reply = _get_onboarding_completion_message(
                                        WithNotes(NewUser, <<>>, <<>>)).reply]_vars

\* a question of a user in COMPLETED_ONBOARDING was handled by
\* _handle_nutrition_question, and the user's profile was read for it
C36_Witness ==
    \E p \in DOMAIN users :
        /\ last.op = "webhook"
        /\ last.from_number = p
        /\ ~IsGlobalCommand(last.message_body)
        /\ last.handler = "_handle_nutrition_question"
        /\ users[p].conversation_state = "COMPLETED_ONBOARDING"
        /\ users[p].trimester \in {1, 2, 3}

\* the states a user is in once onboarding is behind them
PastOnboarding ==
    {"COMPLETED_ONBOARDING", "AWAITING_MEAL_PLAN_DAY", "AWAITING_SHARE_CONFIRMATION"}

\* C37: every stored user who is past onboarding has a trimester of 1, 2 or 3;
\* no sequence of messages, the global commands included, brings a user there
\* with the trimester unset.
C37_TrimesterSetPastOnboarding ==
    \A p \in DOMAIN users :
        users[p].conversation_state \in PastOnboarding => users[p].trimester \in {1, 2, 3}

\* a user went through the questionnaire: the usage-preferences answer completed
\* onboarding and the trimester answered earlier is stored
C37_Witness ==
    \E p \in DOMAIN users :
        /\ last.from_number = p
        /\ last.handler = "_handle_usage_preferences_response"
        /\ users[p].conversation_state = "COMPLETED_ONBOARDING"
        /\ users[p].trimester \in {1, 2, 3}

----------------------------------------------------------------------------
(* Every slot of the day is rendered (specification SpecRender) *)

----------------------------------------------------------------------------
(* The line parser and the labels of the lines (specification SpecNorm) *)

\* a line that is a day name, and a line "<slot>: <dish>"
DayLine(line) ==
    Len(line) = 1 /\ line[1].k = "word" /\ \E i \in 1..7 : line[1].v = day_names[i]
LabelledLine(line) ==
    /\ Len(line) = 3
    /\ line[1].k = "word" /\ line[1].v \in SlotNames
    /\ line[2] = Punct(":")
    /\ line[3].k = "word"

\* the day line that opens the section line k is in, 0 when there is none
SectionOf(lines, k) ==
    LET before == {j \in 1..(k - 1) : DayLine(lines[j])} IN
    IF before = {} THEN 0 ELSE CHOOSE j \in before : \A i \in before : i <= j

\* line k is the last line of its section that carries its label
LastOfLabel(lines, k) ==
    \A n \in (k + 1)..Len(lines) :
        (LabelledLine(lines[n]) /\ lines[n][1].v = lines[k][1].v)
            => SectionOf(lines, n) # SectionOf(lines, k)

\* C39: of a text that is no JSON, the line parser records every labelled meal
\* line under the slot its label names ("Snack 1: X" then "Snack 2: Y" give a
\* day whose Snack 1 is X and whose Snack 2 is Y), and every day it emits has
\* at least one meal.
C39_LinesUnderTheirLabels ==
    (last.op = "generate_meal_plan" /\ last.message_body \in PlainTexts) =>
        LET lines == SplitLines(last.message_body)
            days == IF JHas(last.reply, "error") THEN <<>> ELSE last.reply.v.days.v
        IN  /\ \A d \in 1..Len(days) : JLen(days[d].v.meals) >= 1
            /\ \A k \in 1..Len(lines) :
                   (LabelledLine(lines[k]) /\ SectionOf(lines, k) # 0 /\ LastOfLabel(lines, k))
                   => \E d \in 1..Len(days) :
                          /\ days[d].v.day = JStr(lines[SectionOf(lines, k)][1].v)
                          /\ JHas(days[d].v.meals, lines[k][1].v)
                          /\ days[d].v.meals.v[lines[k][1].v].v.name = JStr(lines[k][3].v)

\* the text with a "Snack 1" line followed by a "Snack 2" line was parsed into
\* one day, Monday, that has a meal
C39_Witness ==
    /\ last.op = "generate_meal_plan"
    /\ last.message_body =
           <<Word("Monday"), NL, Word("Snack 1"), Punct(":"), Word("apple"), NL,
             Word("Snack 2"), Punct(":"), Word("nuts")>>
    /\ last.reply = _format_text_response_to_json(last.message_body)
    /\ Len(last.reply.v.days.v) = 1
    /\ last.reply.v.days.v[1].v.day = JStr("Monday")
    /\ JLen(last.reply.v.days.v[1].v.meals) >= 1

====
